---- MODULE Spec2Model ----
(***************************************************************************)
(* Model of the timesheet application.  Backend (server/src/index.js): the *)
(* activity-type normaliser, the daily row capper, the request handlers    *)
(* that read and write the activities and profiles tables, the AI parser,  *)
(* the CSV exports and the month route.  Client (Activity.vue): the day    *)
(* being edited, saveDay and the month view.                               *)
(*                                                                         *)
(* Text is modelled as a sequence of characters.  Each character is a      *)
(* token: "e'" is U+00E9 (e acute), "E'" is U+00C9, "'" alone is the       *)
(* combining acute accent U+0301 and "ZW" is the zero-width space U+200B.  *)
(***************************************************************************)
EXTENDS Integers, Sequences, FiniteSets, TLC

VARIABLES
  activities,   \* the activities table: a set of rows
  nextId,       \* the next value of the table's serial id
  profiles,     \* the profiles table: user id -> role ("none" = no row)
  appMeta,      \* identity provider app_metadata.role per user
  resp,         \* the response of the last request handled
  reqs,         \* requests in flight (interleaved handlers)
  normIn,       \* argument of normalizeType
  normOut,      \* its result
  capIn,        \* rows given to capRowsToOneDay
  capMax,       \* maxHours given to capRowsToOneDay
  capOut,       \* its result
  capTwice,     \* the result of applying it to its own result
  pc,           \* how far the function under study has been applied, or
                \* the route or builder that applied it
  returned,     \* the rows in the body of the last /api/ai/parse response
  view,         \* the refs of the Activity view (client)
  cellIn,       \* a value of a column of an exported row
  cellOut,      \* the cell a CSV export emits for it
  monthIn,      \* year, month and entries given to the month view
  monthOut,     \* the cells of the month view
  funIn,        \* argument of a derived-data or conversion function
  funOut,       \* its result
  nav,          \* the browser: session, cached identity, route, navigation
  posted        \* the body of the request of saveDay that is in flight

vars == <<activities, nextId, profiles, appMeta, resp, reqs,
          normIn, normOut, capIn, capMax, capOut, capTwice, pc,
          returned, view, cellIn, cellOut, monthIn, monthOut,
          funIn, funOut, nav, posted>>

storeVars == <<activities, nextId, profiles, appMeta, resp, reqs>>
serverVars == <<storeVars, returned>>
normVars == <<normIn, normOut>>
capVars == <<capIn, capMax, capOut, capTwice>>
clientVars == <<view>>
exportVars == <<cellIn, cellOut>>
monthVars == <<monthIn, monthOut>>
funVars == <<funIn, funOut>>
restVars == <<funVars, nav, posted>>

(***************************************************************************)
(* Characters and strings                                                  *)
(***************************************************************************)
UpperLetters ==
  <<"A", "B", "C", "D", "E", "F", "G", "H", "I", "J", "K", "L", "M",
    "N", "O", "P", "Q", "R", "S", "T", "U", "V", "W", "X", "Y", "Z", "E'">>

LowerLetters ==
  <<"a", "b", "c", "d", "e", "f", "g", "h", "i", "j", "k", "l", "m",
    "n", "o", "p", "q", "r", "s", "t", "u", "v", "w", "x", "y", "z", "e'">>

Precomposed == <<"e'", "E'">>
BaseLetters == <<"e", "E">>
CombiningAcute == "'"
ZeroWidth == "ZW"

IndexOf(seq, x) == CHOOSE i \in 1..Len(seq) : seq[i] = x
Includes(seq, x) == \E i \in 1..Len(seq) : seq[i] = x

\* String.prototype.toLowerCase, character by character
toLowerCase(s) ==
  [i \in 1..Len(s) |->
     IF Includes(UpperLetters, s[i])
       THEN LowerLetters[IndexOf(UpperLetters, s[i])]
       ELSE s[i]]

\* String.prototype.normalize("NFD"): canonical decomposition
RECURSIVE normalizeNFD(_)
normalizeNFD(s) ==
  IF s = <<>> THEN <<>>
  ELSE IF Includes(Precomposed, Head(s))
    THEN <<BaseLetters[IndexOf(Precomposed, Head(s))], CombiningAcute>>
           \o normalizeNFD(Tail(s))
    ELSE <<Head(s)>> \o normalizeNFD(Tail(s))

\* String.prototype.normalize("NFC"): canonical composition
RECURSIVE normalizeNFC(_)
normalizeNFC(s) ==
  IF s = <<>> THEN <<>>
  ELSE IF Len(s) >= 2 /\ Includes(BaseLetters, s[1]) /\ s[2] = CombiningAcute
    THEN <<Precomposed[IndexOf(BaseLetters, s[1])]>>
           \o normalizeNFC(Tail(Tail(s)))
    ELSE <<Head(s)>> \o normalizeNFC(Tail(s))

\* .replace(/[\u200B-\u200D\uFEFF]/g, "")
removeZeroWidth(s) == SelectSeq(s, LAMBDA c : c # ZeroWidth)

\* .replace(/[\u0300-\u036f]/g, "")
removeAccents(s) == SelectSeq(s, LAMBDA c : c # CombiningAcute)

\* String.prototype.trim
RECURSIVE trimStart(_)
trimStart(s) ==
  IF s # <<>> /\ Head(s) = " " THEN trimStart(Tail(s)) ELSE s

RECURSIVE trimEnd(_)
trimEnd(s) ==
  IF s # <<>> /\ s[Len(s)] = " "
    THEN trimEnd(SubSeq(s, 1, Len(s) - 1))
    ELSE s

trim(s) == trimEnd(trimStart(s))

\* .replace(/[_/]+/g, " "): each run of "_" and "/" becomes one space
RECURSIVE replaceSeparators(_)
replaceSeparators(s) ==
  IF s = <<>> THEN <<>>
  ELSE IF Head(s) \in {"_", "/"}
    THEN IF Len(s) >= 2 /\ s[2] \in {"_", "/"}
           THEN replaceSeparators(Tail(s))
           ELSE <<" ">> \o replaceSeparators(Tail(s))
    ELSE <<Head(s)>> \o replaceSeparators(Tail(s))

\* .replace(/\s+/g, " "): each run of white space becomes one space
RECURSIVE collapseSpaces(_)
collapseSpaces(s) ==
  IF s = <<>> THEN <<>>
  ELSE IF Head(s) = " " /\ Len(s) >= 2 /\ s[2] = " "
    THEN collapseSpaces(Tail(s))
    ELSE <<Head(s)>> \o collapseSpaces(Tail(s))

\* String.prototype.endsWith
endsWith(s, suffix) ==
  /\ Len(suffix) <= Len(s)
  /\ SubSeq(s, Len(s) - Len(suffix) + 1, Len(s)) = suffix

(***************************************************************************)
(* Activity types and normalizeType                                        *)
(***************************************************************************)
T_Travail == <<"T", "r", "a", "v", "a", "i", "l">>
T_Reunion == <<"R", "e'", "u", "n", "i", "o", "n">>
T_Support == <<"S", "u", "p", "p", "o", "r", "t">>
T_Projet == <<"P", "r", "o", "j", "e", "t">>
T_Conges == <<"C", "o", "n", "g", "e'", "s">>
T_Alternance == <<"A", "l", "t", "e", "r", "n", "a", "n", "c", "e">>
T_Weekend == <<"W", "e", "e", "k", "-", "e", "n", "d">>
T_Autre == <<"A", "u", "t", "r", "e">>
T_Evol == <<"E", "v", "o", "l">>
T_Ano == <<"A", "n", "o">>
T_IncidentApplicatif == <<"I", "n", "c", "i", "d", "e", "n", "t", " ", "A", "p", "p", "l", "i", "c", "a", "t", "i", "f">>
T_Nondefini == <<"N", "o", "n", " ", "d", "e'", "f", "i", "n", "i">>

ActivityType ==
  <<T_Travail, T_Reunion, T_Support, T_Projet, T_Conges, T_Alternance,
    T_Weekend, T_Autre, T_Evol, T_Ano, T_IncidentApplicatif, T_Nondefini>>

\* the object literal "map" of normalizeType: its own properties, in order
map ==
  <<
     <<<<"t", "r", "a", "v", "a", "i", "l">>, T_Travail>>,
     <<<<"d", "e", "v">>, T_Travail>>,
     <<<<"d", "e", "v", "e", "l", "o", "p", "p", "e", "m", "e", "n", "t">>, T_Travail>>,
     <<<<"d", "e", "v", "e", "l", "o", "p", "p", "e", "r">>, T_Travail>>,
     <<<<"d", "e", "v", " ", "s", "u", "r">>, T_Travail>>,
     <<<<"r", "e", "u", "n", "i", "o", "n">>, T_Reunion>>,
     <<<<"m", "e", "e", "t", "i", "n", "g">>, T_Reunion>>,
     <<<<"d", "a", "i", "l", "y">>, T_Reunion>>,
     <<<<"p", "o", "i", "n", "t">>, T_Reunion>>,
     <<<<"s", "y", "n", "c">>, T_Reunion>>,
     <<<<"s", "u", "p", "p", "o", "r", "t">>, T_Support>>,
     <<<<"a", "s", "s", "i", "s", "t", "a", "n", "c", "e">>, T_Support>>,
     <<<<"d", "e", "b", "u", "g">>, T_Support>>,
     <<<<"b", "u", "g">>, T_Support>>,
     <<<<"c", "o", "r", "r", "e", "c", "t", "i", "o", "n">>, T_Support>>,
     <<<<"i", "n", "c", "i", "d", "e", "n", "t">>, T_IncidentApplicatif>>,
     <<<<"i", "n", "c", "i", "d", "e", "n", "t", " ", "a", "p", "p", "l", "i", "c", "a", "t", "i", "f">>, T_IncidentApplicatif>>,
     <<<<"i", "n", "c", "i", "d", "e", "n", "t", " ", "a", "p", "p", "l", "i">>, T_IncidentApplicatif>>,
     <<<<"i", "n", "c", "i", "d", "e", "n", "t", " ", "a", "p", "p", "l", "i", "c", "a", "t", "i", "o", "n">>, T_IncidentApplicatif>>,
     <<<<"p", "r", "o", "j", "e", "t">>, T_Projet>>,
     <<<<"p", "r", "o", "j", "e", "c", "t">>, T_Projet>>,
     <<<<"e", "v", "o", "l">>, T_Evol>>,
     <<<<"e", "v", "o", "l", "u", "t", "i", "o", "n">>, T_Evol>>,
     <<<<"e", "v", "o", "l", "u", "t", "i", "o", "n", " ", "t", "e", "c", "h", "n", "i", "q", "u", "e">>, T_Evol>>,
     <<<<"f", "e", "a", "t", "u", "r", "e">>, T_Evol>>,
     <<<<"a", "n", "o">>, T_Ano>>,
     <<<<"a", "n", "o", "m", "a", "l", "i", "e">>, T_Ano>>,
     <<<<"a", "n", "o", "m", "a", "l", "i", "e", "s">>, T_Ano>>,
     <<<<"t", "i", "c", "k", "e", "t", " ", "n", "o", "n", " ", "d", "e", "f", "i", "n", "i">>, T_Nondefini>>,
     <<<<"n", "o", "n", " ", "d", "e", "f", "i", "n", "i">>, T_Nondefini>>,
     <<<<"t", "i", "c", "k", "e", "t">>, T_Nondefini>>,
     <<<<"c", "o", "n", "g", "e">>, T_Conges>>,
     <<<<"c", "o", "n", "g", "e", "s">>, T_Conges>>,
     <<<<"c", "p">>, T_Conges>>,
     <<<<"v", "a", "c", "a", "n", "c", "e", "s">>, T_Conges>>,
     <<<<"a", "l", "t", "e", "r", "n", "a", "n", "c", "e">>, T_Alternance>>,
     <<<<"e", "c", "o", "l", "e">>, T_Alternance>>,
     <<<<"c", "f", "a">>, T_Alternance>>,
     <<<<"c", "o", "u", "r", "s">>, T_Alternance>>,
     <<<<"f", "o", "r", "m", "a", "t", "i", "o", "n">>, T_Alternance>>,
     <<<<"f", "o", "r", "m", "a", "t", "i", "o", "n", " ", "i", "a">>, T_Alternance>>,
     <<<<"w", "e", "e", "k", "e", "n", "d">>, T_Weekend>>,
     <<<<"w", "e", "e", "k", " ", "e", "n", "d">>, T_Weekend>>,
     <<<<"w", "e", "e", "k", "-", "e", "n", "d">>, T_Weekend>>,
     <<<<"w", "e">>, T_Weekend>>,
     <<<<"a", "u", "t", "r", "e">>, T_Autre>>,
     <<<<"d", "i", "v", "e", "r", "s">>, T_Autre>>
  >>

\* what a property read yields when the key is not an own property
Undefined == <<"#undefined">>
InheritedFunction == <<"#function">>

\* the property names of Object.prototype, which every object literal inherits
ObjectPrototypeKeys ==
  { <<"c", "o", "n", "s", "t", "r", "u", "c", "t", "o", "r">>,
    <<"t", "o", "S", "t", "r", "i", "n", "g">>,
    <<"t", "o", "L", "o", "c", "a", "l", "e", "S", "t", "r", "i", "n", "g">>,
    <<"v", "a", "l", "u", "e", "O", "f">>,
    <<"h", "a", "s", "O", "w", "n", "P", "r", "o", "p", "e", "r", "t", "y">>,
    <<"i", "s", "P", "r", "o", "t", "o", "t", "y", "p", "e", "O", "f">>,
    <<"p", "r", "o", "p", "e", "r", "t", "y", "I", "s", "E", "n", "u", "m",
      "e", "r", "a", "b", "l", "e">>,
    <<"_", "_", "p", "r", "o", "t", "o", "_", "_">> }

\* map[key]: own property first, then the prototype chain
mapGet(key) ==
  IF \E i \in 1..Len(map) : map[i][1] = key
    THEN map[CHOOSE i \in 1..Len(map) : map[i][1] = key][2]
    ELSE IF key \in ObjectPrototypeKeys THEN InheritedFunction
    ELSE Undefined

\* a ?? b
nullish(a, b) == IF a = Undefined THEN b ELSE a

normalizeType(v) ==
  LET s0 == normalizeNFC(trim(removeZeroWidth(v)))
      simplified ==
        trim(collapseSpaces(replaceSeparators(
          removeAccents(normalizeNFD(toLowerCase(s0))))))
  IN  IF Includes(ActivityType, s0) THEN s0
      ELSE nullish(mapGet(simplified), T_Autre)

(***************************************************************************)
(* capRowsToOneDay.  Hours are exact hundredths of an hour (350 = 3.5 h),  *)
(* the unit of the function's two-decimal rounding; a row keeps its other  *)
(* fields, represented by sujet.                                           *)
(***************************************************************************)
Max(a, b) == IF a >= b THEN a ELSE b

Min(a, b) == IF a <= b THEN a ELSE b

\* Math.round(num / den) for den > 0: halves round towards +infinity
roundDiv(num, den) == (2 * num + den) \div (2 * den)

RECURSIVE sumHours(_)
sumHours(rows) ==
  IF rows = <<>> THEN 0
  ELSE Head(rows).temps_passe_h + sumHours(Tail(rows))

\* rows.map(r => ({...r, temps_passe_h: Math.max(0, Number(r.temps_passe_h || 0))}))
cleanRows(rows) ==
  [i \in 1..Len(rows) |->
     [rows[i] EXCEPT !.temps_passe_h = Max(0, @)]]

\* the early return taken only for an all-zero list
noScalingNeeded_OnlyWhenZero(total, maxHours) == total = 0

\* if (total <= maxHours || total === 0) return cleaned
noScalingNeeded(total, maxHours) == total <= maxHours \/ total = 0

\* cleaned.map(r => Math.round(r.temps_passe_h * factor * 100) / 100),
\* factor = maxHours / total
scaleRows(cleaned, maxHours, total) ==
  [i \in 1..Len(cleaned) |->
     [cleaned[i] EXCEPT !.temps_passe_h = roundDiv(@ * maxHours, total)]]

\* the last of the largest rows instead of the first
largestIndex_LastOnTies(rows) ==
  CHOOSE i \in 1..Len(rows) :
    /\ \A j \in 1..Len(rows) : rows[j].temps_passe_h <= rows[i].temps_passe_h
    /\ \A j \in (i + 1)..Len(rows) : rows[j].temps_passe_h < rows[i].temps_passe_h

\* idx = 0; for (i = 1..) if (scaled[i] > scaled[idx]) idx = i
largestIndex(rows) ==
  CHOOSE i \in 1..Len(rows) :
    /\ \A j \in 1..Len(rows) : rows[j].temps_passe_h <= rows[i].temps_passe_h
    /\ \A j \in 1..(i - 1) : rows[j].temps_passe_h < rows[i].temps_passe_h

\* scaled[idx].temps_passe_h = Math.max(0, round2(scaled[idx].temps_passe_h + d))
adjustLargest(rows, d) ==
  [rows EXCEPT ![largestIndex(rows)].temps_passe_h = Max(0, @ + d)]

capRowsToOneDay(rows, maxHours) ==
  LET cleaned == cleanRows(rows)
      total == sumHours(cleaned)
      scaled == scaleRows(cleaned, maxHours, total)
      delta == maxHours - sumHours(scaled)
      corrected ==
        IF delta # 0 /\ Len(scaled) > 0
          THEN adjustLargest(scaled, delta)
          ELSE scaled
      finalTotal == sumHours(corrected)
  IN  IF noScalingNeeded(total, maxHours) THEN cleaned
      ELSE IF finalTotal > maxHours /\ Len(corrected) > 0
        THEN adjustLargest(corrected, -(finalTotal - maxHours))
        ELSE corrected

(***************************************************************************)
(* Hours in the activities table.  The write handlers compare a day total  *)
(* with HOURS_PER_DAY + 1e-9, so a stored value is kept as a pair: c, the  *)
(* hundredths of an hour, and n, the billionths of an hour on top of them  *)
(* (n stays far below the 10^7 billionths that make one hundredth).        *)
(***************************************************************************)
Hours(c, n) == [c |-> c, n |-> n]

hoursAdd(a, b) == [c |-> a.c + b.c, n |-> a.n + b.n]

\* a > b
hoursGt(a, b) == a.c > b.c \/ (a.c = b.c /\ a.n > b.n)

\* rows.reduce((acc, r) => acc + Number(r?.temps_passe_h ?? 0), 0)
RECURSIVE totalHours(_)
totalHours(rows) ==
  IF rows = <<>> THEN Hours(0, 0)
  ELSE hoursAdd(Head(rows).temps_passe_h, totalHours(Tail(rows)))

\* const HOURS_PER_DAY = 7
HOURS_PER_DAY == Hours(700, 0)

\* the 1e-9 of "HOURS_PER_DAY + 1e-9"
Tolerance == Hours(0, 1)

\* the total compared with the 24 h maximum of one row
overDailyLimit_RowMaximum(total) == hoursGt(total, Hours(2400, 0))

\* total > HOURS_PER_DAY + 1e-9
overDailyLimit(total) == hoursGt(total, hoursAdd(HOURS_PER_DAY, Tolerance))

(***************************************************************************)
(* Accounts                                                                *)
(***************************************************************************)
Users == {"ana", "bob", "eve"}

\* a request without a valid bearer credential
Anonymous == "anonymous"

Callers == Users \cup {Anonymous}

\* user.email of each account, as the identity provider returns it
emailOf(u) ==
  CASE u = "ana" ->
         <<"A", "n", "a", "@", "K", "e", "y", "r", "u", "s", ".", "c", "o", "m">>
    [] u = "bob" ->
         <<"b", "o", "b", "@", "k", "e", "y", "r", "u", "s", ".", "c", "o", "m">>
    [] OTHER ->
         <<"e", "v", "e", "@", "g", "m", "a", "i", "l", ".", "c", "o", "m">>

\* process.env.PM_ALLOWED_EMAILS
PM_ALLOWED_EMAILS ==
  <<"a", "n", "a", "@", "k", "e", "y", "r", "u", "s", ".", "c", "o", "m", ",",
    " ", "E", "v", "e", "@", "g", "m", "a", "i", "l", ".", "c", "o", "m", ",">>

\* String.prototype.split(",")
RECURSIVE splitComma(_, _)
splitComma(s, current) ==
  IF s = <<>> THEN <<current>>
  ELSE IF Head(s) = "," THEN <<current>> \o splitComma(Tail(s), <<>>)
  ELSE splitComma(Tail(s), Append(current, Head(s)))

\* any address accepted, whatever its domain
isKeyrusEmail_AnyDomain(email) == Includes(toLowerCase(email), "@")

\* email.toLowerCase().endsWith("@keyrus.com")
isKeyrusEmail(email) ==
  endsWith(toLowerCase(email),
           <<"@", "k", "e", "y", "r", "u", "s", ".", "c", "o", "m">>)

\* PM_ALLOWED_EMAILS.split(",").map(trim + toLowerCase).filter(Boolean)
\*   .includes(email.toLowerCase())
isAllowedPm(email) ==
  LET parts == splitComma(PM_ALLOWED_EMAILS, <<>>)
      allowed ==
        SelectSeq([i \in 1..Len(parts) |-> toLowerCase(trim(parts[i]))],
                  LAMBDA s : s # <<>>)
  IN  Includes(allowed, toLowerCase(email))

(***************************************************************************)
(* Request schemas                                                         *)
(***************************************************************************)
\* temps_passe_h: only the 24 h maximum checked
hoursInRange_NoMinimum(h) == ~hoursGt(h, Hours(2400, 0))

\* temps_passe_h: z.coerce.number().min(0).max(24)
hoursInRange(h) == ~hoursGt(Hours(0, 0), h) /\ ~hoursGt(h, Hours(2400, 0))

\* type: z.preprocess(normalizeType, z.any())
typeAccepted_AnyValue(raw) == TRUE

\* type: z.preprocess(normalizeType, z.enum([...]))
typeAccepted(raw) == Includes(ActivityType, normalizeType(raw))

\* RowInputSchema.parse of one row
rowAccepted(r) == hoursInRange(r.temps_passe_h) /\ typeAccepted(r.type)

parseRow(r) ==
  [temps_passe_h |-> r.temps_passe_h,
   type |-> normalizeType(r.type),
   impute |-> r.impute]

parseRows(rows) == [i \in 1..Len(rows) |-> parseRow(rows[i])]

\* day: z.string().min(10)
dayAccepted(day) == Len(day) >= 10

\* the schema of upsertDay: day, rows, and the superRefine on the total
upsertDayBodyAccepted(day, rows) ==
  /\ dayAccepted(day)
  /\ \A i \in 1..Len(rows) : rowAccepted(rows[i])
  /\ ~overDailyLimit(totalHours(rows))

\* the schema of appendDay: rows.min(1) and the superRefine on the added total
appendDayBodyAccepted(day, rows) ==
  /\ dayAccepted(day)
  /\ Len(rows) >= 1
  /\ \A i \in 1..Len(rows) : rowAccepted(rows[i])
  /\ ~overDailyLimit(totalHours(rows))

\* UpsertForUserSchemaWithLimit
upsertForUserBodyAccepted(userId, day, rows) ==
  /\ Len(userId) >= 1
  /\ dayAccepted(day)
  /\ Len(rows) >= 1
  /\ \A i \in 1..Len(rows) : rowAccepted(rows[i])
  /\ ~overDailyLimit(totalHours(rows))

\* UpdateVsaSchema: rows.min(1), each { id, impute }
updateVsaBodyAccepted(updates) == Len(updates) >= 1

(***************************************************************************)
(* The activities and profiles tables                                      *)
(***************************************************************************)
\* the value of the impute column when an insert leaves it out
DefaultImpute == ""

\* .eq("user_id", u).eq("day", d)
dayRows(acts, u, d) == {a \in acts : a.user_id = u /\ a.day = d}

\* .delete().eq("user_id", u).eq("day", d)
deleteDay(acts, u, d) == acts \ dayRows(acts, u, d)

\* a set of rows as a sequence, ordered by id
RECURSIVE rowsById(_)
rowsById(rows) ==
  IF rows = {} THEN <<>>
  ELSE LET first == CHOOSE a \in rows : \A b \in rows : a.id <= b.id
       IN  <<first>> \o rowsById(rows \ {first})

\* the payload of upsertDay and appendDay: no impute
memberPayload(u, d, rows, firstId) ==
  {[id |-> firstId + i - 1, user_id |-> u, day |-> d,
    temps_passe_h |-> rows[i].temps_passe_h, type |-> rows[i].type,
    impute |-> DefaultImpute] : i \in 1..Len(rows)}

\* the payload of upsertDayForUser: impute included
managerPayload(u, d, rows, firstId) ==
  {[id |-> firstId + i - 1, user_id |-> u, day |-> d,
    temps_passe_h |-> rows[i].temps_passe_h, type |-> rows[i].type,
    impute |-> rows[i].impute] : i \in 1..Len(rows)}

\* .update({ impute }) without the .eq("id", id) filter
updateImpute_EveryRow(acts, id, impute) ==
  {[a EXCEPT !.impute = impute] : a \in acts}

\* .update({ impute }).eq("id", id)
updateImpute(acts, id, impute) ==
  {IF a.id = id THEN [a EXCEPT !.impute = impute] ELSE a : a \in acts}

\* the first k updates of update-vsa, one by one
RECURSIVE applyUpdates(_, _, _)
applyUpdates(acts, updates, k) ==
  IF k = 0 THEN acts
  ELSE updateImpute(applyUpdates(acts, updates, k - 1),
                    updates[k].id, updates[k].impute)

\* getUserFromBearer: null unless the bearer credential names an account
authenticated(caller) == caller \in Users

\* the Authorization header of a request: its scheme and its token
\* ("none": no header).  A token is valid when it is the session token of
\* an account, written here as the account's name.
Credential(scheme, token) == [scheme |-> scheme, token |-> token]

\* the token looked up whatever the scheme of the header
getUserFromBearer_AnyScheme(cred) ==
  IF cred.token \in Users THEN cred.token ELSE Anonymous

\* getUserFromBearer: the header must match /^Bearer (.+)$/ and
\* supabaseAdmin.auth.getUser(jwt) must return a user; null otherwise
getUserFromBearer(cred) ==
  IF cred.scheme = "Bearer" /\ cred.token # "" /\ cred.token \in Users
    THEN cred.token
    ELSE Anonymous

\* getRole: .single() answers with an error when the profile row is missing
roleLookupFails(profs, u) == profs[u] = "none"

\* a role check that refuses only accounts without a role
notManager_MemberAllowed(role) == role # "pm" /\ role # "dev"

\* if (prof.role !== "pm") return 403
notManager(role) == role # "pm"

Reply(op, caller, status, stage) ==
  resp' = [op |-> op, user |-> caller, status |-> status, stage |-> stage]

(***************************************************************************)
(* Bounds of the model                                                     *)
(***************************************************************************)
MaxId == 2        \* rows inserted in one behaviour
MaxRows == 2      \* rows in one request body
MaxCapRows == 6   \* rows given to capRowsToOneDay

(***************************************************************************)
(* Handlers, each run to completion.  Where a handler reaches a store      *)
(* call, the store either performs it or answers with an error.            *)
(***************************************************************************)
nonStoreVars ==
  <<reqs, normVars, capVars, pc, returned, clientVars, exportVars, monthVars, restVars>>

\* POST /api/activities/upsertDay
UpsertDay(caller, day, rows) ==
  /\ IF ~authenticated(caller)
       THEN /\ Reply("upsertDay", caller, 401, "auth")
            /\ UNCHANGED <<activities, nextId>>
     ELSE IF ~upsertDayBodyAccepted(day, rows)
       THEN /\ Reply("upsertDay", caller, 400, "validate")
            /\ UNCHANGED <<activities, nextId>>
     ELSE \/ \* the delete fails
             /\ Reply("upsertDay", caller, 400, "delete")
             /\ UNCHANGED <<activities, nextId>>
          \/ \* the delete succeeds, the insert fails
             /\ activities' = deleteDay(activities, caller, day)
             /\ Reply("upsertDay", caller, 400, "insert")
             /\ UNCHANGED nextId
          \/ /\ nextId + Len(rows) - 1 <= MaxId
             /\ activities' =
                  deleteDay(activities, caller, day)
                    \cup memberPayload(caller, day, parseRows(rows), nextId)
             /\ nextId' = nextId + Len(rows)
             /\ Reply("upsertDay", caller, 200, "done")
  /\ UNCHANGED <<profiles, appMeta>>
  /\ UNCHANGED nonStoreVars

\* POST /api/activities/appendDay
AppendDay(caller, day, rows) ==
  /\ IF ~authenticated(caller)
       THEN /\ Reply("appendDay", caller, 401, "auth")
            /\ UNCHANGED <<activities, nextId>>
     ELSE IF ~appendDayBodyAccepted(day, rows)
       THEN /\ Reply("appendDay", caller, 400, "validate")
            /\ UNCHANGED <<activities, nextId>>
     ELSE \/ \* the select of the existing rows fails
             /\ Reply("appendDay", caller, 400, "select")
             /\ UNCHANGED <<activities, nextId>>
          \/ IF overDailyLimit(
                  hoursAdd(
                    totalHours(rowsById(dayRows(activities, caller, day))),
                    totalHours(parseRows(rows))))
               THEN /\ Reply("appendDay", caller, 400, "limit")
                    /\ UNCHANGED <<activities, nextId>>
               ELSE \/ \* the insert fails
                       /\ Reply("appendDay", caller, 400, "insert")
                       /\ UNCHANGED <<activities, nextId>>
                    \/ /\ nextId + Len(rows) - 1 <= MaxId
                       /\ activities' =
                            activities
                              \cup memberPayload(caller, day, parseRows(rows),
                                                 nextId)
                       /\ nextId' = nextId + Len(rows)
                       /\ Reply("appendDay", caller, 200, "done")
  /\ UNCHANGED <<profiles, appMeta>>
  /\ UNCHANGED nonStoreVars

\* POST /api/pm/activities/upsertDayForUser
UpsertDayForUser(caller, userId, day, rows) ==
  /\ IF ~authenticated(caller)
       THEN /\ Reply("upsertDayForUser", caller, 401, "auth")
            /\ UNCHANGED <<activities, nextId>>
     ELSE \/ \* getRole throws
             /\ Reply("upsertDayForUser", caller, 400, "role")
             /\ UNCHANGED <<activities, nextId>>
          \/ /\ ~roleLookupFails(profiles, caller)
             /\ IF notManager(profiles[caller])
                  THEN /\ Reply("upsertDayForUser", caller, 403, "role")
                       /\ UNCHANGED <<activities, nextId>>
                ELSE IF ~upsertForUserBodyAccepted(userId, day, rows)
                  THEN /\ Reply("upsertDayForUser", caller, 400, "validate")
                       /\ UNCHANGED <<activities, nextId>>
                ELSE \/ \* the delete fails
                        /\ Reply("upsertDayForUser", caller, 400, "delete")
                        /\ UNCHANGED <<activities, nextId>>
                     \/ \* the delete succeeds, the insert fails
                        /\ activities' = deleteDay(activities, userId, day)
                        /\ Reply("upsertDayForUser", caller, 400, "insert")
                        /\ UNCHANGED nextId
                     \/ /\ nextId + Len(rows) - 1 <= MaxId
                        /\ activities' =
                             deleteDay(activities, userId, day)
                               \cup managerPayload(userId, day,
                                                   parseRows(rows), nextId)
                        /\ nextId' = nextId + Len(rows)
                        /\ Reply("upsertDayForUser", caller, 200, "done")
  /\ UNCHANGED <<profiles, appMeta>>
  /\ UNCHANGED nonStoreVars

\* POST /api/pm/activities/update-vsa; the updates run one by one and the
\* first error ends the loop, after applied updates
UpdateVsa(caller, updates) ==
  /\ IF ~authenticated(caller)
       THEN /\ Reply("update-vsa", caller, 401, "auth")
            /\ UNCHANGED activities
     ELSE \/ \* getRole throws
             /\ Reply("update-vsa", caller, 400, "role")
             /\ UNCHANGED activities
          \/ /\ ~roleLookupFails(profiles, caller)
             /\ IF notManager(profiles[caller])
                  THEN /\ Reply("update-vsa", caller, 403, "role")
                       /\ UNCHANGED activities
                ELSE IF ~updateVsaBodyAccepted(updates)
                  THEN /\ Reply("update-vsa", caller, 400, "validate")
                       /\ UNCHANGED activities
                ELSE \/ \E applied \in 0..(Len(updates) - 1) :
                          /\ activities' =
                               applyUpdates(activities, updates, applied)
                          /\ Reply("update-vsa", caller, 400, "update")
                     \/ /\ activities' =
                             applyUpdates(activities, updates, Len(updates))
                        /\ Reply("update-vsa", caller, 200, "done")
  /\ UNCHANGED <<nextId, profiles, appMeta>>
  /\ UNCHANGED nonStoreVars

\* the reading /api/pm routes
PmReadRoutes ==
  {"summary", "summary/ai", "completion", "activities",
   "export-range", "export", "export-range-xlsx", "export-xlsx"}

\* GET /api/pm/summary and the other reading /api/pm routes: the same
\* bearer check, role check and query validation, then the reads
PmRead(route, caller, queryAccepted) ==
  /\ IF ~authenticated(caller)
       THEN Reply(route, caller, 401, "auth")
     ELSE \/ \* getRole throws
             Reply(route, caller, 400, "role")
          \/ /\ ~roleLookupFails(profiles, caller)
             /\ IF notManager(profiles[caller])
                  THEN Reply(route, caller, 403, "role")
                ELSE IF ~queryAccepted
                  THEN Reply(route, caller, 400, "validate")
                ELSE \/ \* a read fails
                        Reply(route, caller, 400, "select")
                     \/ Reply(route, caller, 200, "done")
  /\ UNCHANGED <<activities, nextId, profiles, appMeta>>
  /\ UNCHANGED nonStoreVars

\* POST /api/profile/complete
ProfileComplete(caller, bodyAccepted, roleWanted) ==
  LET finalRole == IF roleWanted = "pm" THEN "pm" ELSE "dev"
  IN
  /\ IF ~authenticated(caller)
       THEN /\ Reply("profile/complete", caller, 401, "auth")
            /\ UNCHANGED <<profiles, appMeta>>
     ELSE IF ~bodyAccepted
       THEN /\ Reply("profile/complete", caller, 400, "validate")
            /\ UNCHANGED <<profiles, appMeta>>
     ELSE IF ~isKeyrusEmail(emailOf(caller))
       THEN /\ Reply("profile/complete", caller, 403, "email")
            /\ UNCHANGED <<profiles, appMeta>>
     ELSE IF roleWanted = "pm" /\ ~isAllowedPm(emailOf(caller))
       THEN /\ Reply("profile/complete", caller, 403, "allow-list")
            /\ UNCHANGED <<profiles, appMeta>>
     ELSE \/ \* the profile upsert fails
             /\ Reply("profile/complete", caller, 400, "upsert")
             /\ UNCHANGED <<profiles, appMeta>>
          \/ \* the metadata update fails; the profile is rolled back to "dev"
             /\ profiles' = [profiles EXCEPT ![caller] = "dev"]
             /\ Reply("profile/complete", caller, 400, "metadata")
             /\ UNCHANGED appMeta
          \/ \* the metadata update fails and so does the rollback, whose
             \* error is not looked at
             /\ profiles' = [profiles EXCEPT ![caller] = finalRole]
             /\ Reply("profile/complete", caller, 400, "metadata")
             /\ UNCHANGED appMeta
          \/ /\ profiles' = [profiles EXCEPT ![caller] = finalRole]
             /\ appMeta' = [appMeta EXCEPT ![caller] = finalRole]
             /\ Reply("profile/complete", caller, 200, "done")
  /\ UNCHANGED <<activities, nextId>>
  /\ UNCHANGED nonStoreVars

\* the rows a response of another route than /api/ai/parse carries: none
noRowsReturned == returned' = <<>>

\* GET /api/me
Me(caller) ==
  /\ IF ~authenticated(caller)
       THEN Reply("me", caller, 401, "auth")
     ELSE \/ \* getRole throws
             Reply("me", caller, 400, "role")
          \/ /\ ~roleLookupFails(profiles, caller)
             /\ Reply("me", caller, 200, "done")
  /\ UNCHANGED <<activities, nextId, profiles, appMeta>>
  /\ UNCHANGED nonStoreVars

\* the reading routes open to every account
MemberReadRoutes ==
  {"projects", "activities/day", "activities/month", "activities/export",
   "activities/export-xlsx"}

\* GET /api/activities/day and the other reading routes: the bearer check,
\* the query validation (none in /api/projects), then the read
MemberRead(route, caller, queryAccepted) ==
  /\ IF ~authenticated(caller)
       THEN Reply(route, caller, 401, "auth")
     ELSE IF route # "projects" /\ ~queryAccepted
       THEN Reply(route, caller, 400, "validate")
     ELSE \/ \* the read fails
             Reply(route, caller, 400, "select")
          \/ Reply(route, caller, 200, "done")
  /\ UNCHANGED <<activities, nextId, profiles, appMeta>>
  /\ UNCHANGED nonStoreVars

\* AiParseSchema: text.min(1), day.min(10)
aiParseBodyAccepted(text, day) == Len(text) >= 1 /\ dayAccepted(day)

\* what mistral.chat.complete and the parsing of its content come to:
\*   "unreachable"  the call throws
\*   "prose"        text that is not JSON and holds no {...}
\*   "broken"       text whose {...} part is not JSON either
\*   "null"         the JSON text null
\*   "json"         a JSON object, possibly inside prose; .rows are its rows
replyParses(reply) == reply.kind = "json"

\* RowWithDaySchema.parse({...r, day: body.day}) for every row of the reply
aiRowsAccepted(rows) == \A i \in 1..Len(rows) : rowAccepted(rows[i])

\* the validated rows, their hours counted in hundredths
aiValidated(rows, day) ==
  [i \in 1..Len(rows) |->
     [day |-> day, type |-> normalizeType(rows[i].type),
      temps_passe_h |-> rows[i].temps_passe_h.c, impute |-> rows[i].impute]]

\* POST /api/ai/parse
AiParse(caller, configured, text, day, reply) ==
  /\ IF ~authenticated(caller)
       THEN /\ Reply("ai/parse", caller, 401, "auth")
            /\ noRowsReturned
     ELSE IF ~configured
       THEN /\ Reply("ai/parse", caller, 500, "MISTRAL_NOT_CONFIGURED")
            /\ noRowsReturned
     ELSE IF ~aiParseBodyAccepted(text, day)
       THEN /\ Reply("ai/parse", caller, 400, "validate")
            /\ noRowsReturned
     ELSE IF reply.kind = "unreachable"
       THEN /\ Reply("ai/parse", caller, 400, "upstream")
            /\ noRowsReturned
     ELSE IF ~replyParses(reply)
       THEN /\ Reply("ai/parse", caller, 400, "reply")
            /\ noRowsReturned
     ELSE IF ~aiRowsAccepted(reply.rows)
       THEN /\ Reply("ai/parse", caller, 400, "rows")
            /\ noRowsReturned
     ELSE /\ returned' =
               capRowsToOneDay(aiValidated(reply.rows, day), HOURS_PER_DAY.c)
          /\ Reply("ai/parse", caller, 200, "done")
  /\ UNCHANGED <<activities, nextId, profiles, appMeta>>
  /\ UNCHANGED <<reqs, normVars, capVars, pc, clientVars, exportVars, monthVars, restVars>>

(***************************************************************************)
(* Inputs                                                                  *)
(***************************************************************************)
Days == {"2024-03-04", "2024-03-05"}

REUNION == <<"R", "E", "U", "N", "I", "O", "N">>

\* a type that is neither a member of ActivityType nor a synonym
FreeText == <<"b", "l", "a", "b", "l", "a">>

Row(h, t, imp) == [temps_passe_h |-> h, type |-> t, impute |-> imp]

\* 3.5 h; 7 h and one billionth; 25 h; a type no synonym covers
MemberRowInputs ==
  {Row(Hours(350, 0), REUNION, ""), Row(Hours(700, 1), REUNION, ""),
   Row(Hours(2500, 0), REUNION, "")}

\* a manager's rows carry a billing code
ManagerRowInputs ==
  {Row(Hours(350, 0), REUNION, "VSA1"), Row(Hours(700, 1), REUNION, ""),
   Row(Hours(2500, 0), REUNION, "")}

SeqsUpTo(S, n) == UNION {[1..k -> S] : k \in 0..n}

MemberBodies == SeqsUpTo(MemberRowInputs, MaxRows)
ManagerBodies == SeqsUpTo(ManagerRowInputs, MaxRows)

VsaBodies ==
  SeqsUpTo([id : 1..MaxId, impute : {"VSA1"}], MaxRows)

NoResponse == [op |-> "none", user |-> "none", status |-> 0, stage |-> "none"]

Slots == {1, 2}
Idle == [op |-> "idle"]

(***************************************************************************)
(* The write API, one request at a time.  The two accounts that write have *)
(* completed their profiles: ana as manager, bob as member.                *)
(***************************************************************************)
Writers == {"ana", "bob"}

\* lastSavedSnapshot before the first load or save
NoSnapshot == [day |-> "", text |-> "", rows |-> <<>>]

\* the Activity view before it is mounted
NoView ==
  [day |-> "", text |-> "", rows |-> <<>>, msg |-> "", saving |-> FALSE,
   lastSavedSnapshot |-> NoSnapshot, monthError |-> "",
   loadingAi |-> FALSE, existing |-> <<>>]

NoMonth == [year |-> 0, month |-> 0, entries |-> <<>>]

InitNormIdle == normIn = <<>> /\ normOut = <<>>

InitCapIdle == capIn = <<>> /\ capMax = 0 /\ capOut = <<>> /\ capTwice = <<>>

InitClientIdle == view = NoView

InitExportIdle == cellIn = <<>> /\ cellOut = <<>>

InitMonthIdle == monthIn = NoMonth /\ monthOut = <<>>

\* the browser before the application is opened
NoNav ==
  [to |-> "none", settled |-> TRUE, session |-> "none", api |-> "none",
   cache |-> "none", me |-> "none"]

InitRestIdle ==
  funIn = <<>> /\ funOut = <<>> /\ nav = NoNav /\ posted = <<>>

InitPure ==
  /\ InitNormIdle
  /\ InitCapIdle
  /\ InitClientIdle
  /\ InitExportIdle
  /\ InitMonthIdle
  /\ InitRestIdle
  /\ returned = <<>>
  /\ pc = "input"

InitStoreIdle ==
  /\ activities = {}
  /\ nextId = 1
  /\ profiles = [u \in Users |-> "none"]
  /\ appMeta = [u \in Users |-> "none"]
  /\ resp = NoResponse
  /\ reqs = [s \in Slots |-> Idle]
  /\ returned = <<>>

Init ==
  /\ activities = {}
  /\ nextId = 1
  /\ profiles = [u \in Users |-> CASE u = "ana" -> "pm" [] u = "bob" -> "dev" [] OTHER -> "none"]
  /\ appMeta = profiles
  /\ resp = NoResponse
  /\ reqs = [s \in Slots |-> Idle]
  /\ InitPure

Next ==
  \/ \E c \in Writers, d \in Days, rows \in MemberBodies :
       UpsertDay(c, d, rows)
  \/ \E c \in Writers, d \in Days, rows \in MemberBodies :
       AppendDay(c, d, rows)
  \/ \E c \in Writers, u \in Writers, d \in Days, rows \in ManagerBodies :
       UpsertDayForUser(c, u, d, rows)
  \/ \E c \in Writers, updates \in VsaBodies :
       UpdateVsa(c, updates)

Spec == Init /\ [][Next]_vars

(***************************************************************************)
(* Access control: every account and the anonymous caller on the write     *)
(* routes and on every /api/pm route, with the profiles of Init.           *)
(***************************************************************************)
AccessDay == "2024-03-04"

AccessBodies == SeqsUpTo({Row(Hours(350, 0), REUNION, "VSA1")}, 1)

AccessVsaBodies == SeqsUpTo([id : 1..MaxId, impute : {"VSA1"}], 1)

NextAccess ==
  \/ \E c \in Callers, rows \in AccessBodies :
       UpsertDay(c, AccessDay, rows)
  \/ \E c \in Callers, rows \in AccessBodies :
       AppendDay(c, AccessDay, rows)
  \/ \E c \in Callers, u \in Users, rows \in AccessBodies :
       UpsertDayForUser(c, u, AccessDay, rows)
  \/ \E c \in Callers, updates \in AccessVsaBodies :
       UpdateVsa(c, updates)
  \/ \E r \in PmReadRoutes, c \in Callers, ok \in BOOLEAN :
       PmRead(r, c, ok)

SpecAccess == Init /\ [][NextAccess]_vars

(***************************************************************************)
(* Every route behind the bearer check, called with and without a valid    *)
(* credential.                                                             *)
(***************************************************************************)
\* no header; a header of another scheme carrying a valid token; a Bearer
\* header without token; a Bearer header whose token the identity provider
\* rejects
InvalidCredentials ==
  {Credential("none", "none"), Credential("Basic", "bob"),
   Credential("Bearer", ""), Credential("Bearer", "expired")}

ValidCredentials == {Credential("Bearer", "ana")}

Credentials == InvalidCredentials \cup ValidCredentials

FreeTextRow == Row(Hours(500, 0), FreeText, "")

\* replies of the AI service
AiReply(kind, rows) == [kind |-> kind, rows |-> rows]

AuthAiReplies ==
  {AiReply("unreachable", <<>>), AiReply("json", <<FreeTextRow, FreeTextRow>>)}

AuthBody == <<Row(Hours(350, 0), REUNION, "VSA1")>>

\* one request with the credential cred, on any route
Request(cred) ==
  LET caller == getUserFromBearer(cred) IN
  \/ Me(caller)
  \/ \E r \in MemberReadRoutes : MemberRead(r, caller, TRUE)
  \/ \E configured \in BOOLEAN, reply \in AuthAiReplies :
       AiParse(caller, configured, "reunion", AccessDay, reply)
  \/ UpsertDay(caller, AccessDay, AuthBody)
  \/ AppendDay(caller, AccessDay, AuthBody)
  \/ UpsertDayForUser(caller, "bob", AccessDay, AuthBody)
  \/ UpdateVsa(caller, <<[id |-> 1, impute |-> "VSA2"]>>)
  \/ \E r \in PmReadRoutes : PmRead(r, caller, TRUE)
  \/ \E w \in {"dev", "pm"} : ProfileComplete(caller, TRUE, w)

NextAuth == \E cred \in Credentials : Request(cred)

SpecAuth == Init /\ [][NextAuth]_vars

(***************************************************************************)
(* The write routes called with bodies the schemas refuse: a body without  *)
(* day, rows below 0 h or above 24 h, rows adding up to more than a day.   *)
(***************************************************************************)
\* "" is a body without day
ValidateDays == {"2024-03-04", ""}

\* -1 h, 3.5 h, 4 h, 25 h
ValidateRowInputs ==
  {Row(Hours(0 - 100, 0), T_Reunion, ""), Row(Hours(350, 0), T_Reunion, ""),
   Row(Hours(400, 0), T_Reunion, ""), Row(Hours(2500, 0), T_Reunion, "")}

ValidateBodies == SeqsUpTo(ValidateRowInputs, MaxRows)

NextValidate ==
  \/ \E c \in Writers, d \in ValidateDays, rows \in ValidateBodies :
       UpsertDay(c, d, rows)
  \/ \E c \in Writers, d \in ValidateDays, rows \in ValidateBodies :
       AppendDay(c, d, rows)
  \/ \E c \in Writers, d \in ValidateDays, rows \in ValidateBodies :
       UpsertDayForUser(c, "bob", d, rows)

SpecValidate == Init /\ [][NextValidate]_vars

(***************************************************************************)
(* The AI parser and the write routes, given rows whose type is free text, *)
(* a synonym or an inherited property name, and rows above 24 h.           *)
(***************************************************************************)
\* 5 h of free text, 5 h of "REUNION", 25 h, 3.5 h of "constructor"
AiRowInputs ==
  {Row(Hours(500, 0), FreeText, ""), Row(Hours(500, 0), REUNION, ""),
   Row(Hours(2500, 0), T_Reunion, ""),
   Row(Hours(350, 0),
       <<"c", "o", "n", "s", "t", "r", "u", "c", "t", "o", "r">>, "")}

AiBodies == SeqsUpTo(AiRowInputs, MaxRows)

AiReplies ==
  {AiReply(k, <<>>) : k \in {"unreachable", "prose", "broken", "null"}}
    \cup {AiReply("json", rows) : rows \in AiBodies}

NextAi ==
  \/ \E configured \in BOOLEAN, text \in {"", "reunion"}, reply \in AiReplies :
       AiParse("bob", configured, text, AccessDay, reply)
  \/ \E rows \in AiBodies : UpsertDay("bob", AccessDay, rows)
  \/ \E rows \in AiBodies : AppendDay("bob", AccessDay, rows)
  \/ \E rows \in AiBodies : UpsertDayForUser("ana", "bob", AccessDay, rows)

SpecAi == Init /\ [][NextAi]_vars

(***************************************************************************)
(* The Activity view (client/src/views/Activity.vue): the day shown, the   *)
(* free text, the rows being edited, and saveDay.  A request of the view   *)
(* is answered by reply: its status (0 = no response), the error of the    *)
(* response body and the message of the exception.                         *)
(***************************************************************************)
\* a row of the view: its UI-only id and its time in quarters of a day
ClientRow(id, day, sujet, j) ==
  [id |-> id, day |-> day, sujet |-> sujet, temps_passe_j |-> j]

\* Math.round(Math.min(Math.max(n, 0), MAX_DAYS_PER_ROW) / DAY_STEP) * DAY_STEP
\* of num / den days, in quarters of a day
clampToDayStep(num, den) == Min(Max(roundDiv(4 * num, den), 0), 4)

\* Math.round(Math.min(Math.max(n, 0), MAX_HOURS_PER_ROW) / HOUR_STEP) * HOUR_STEP,
\* in hundredths of an hour
clampToHourStep(c) == roundDiv(Min(Max(c, 0), 2400), 25) * 25

\* hundredths of an hour to quarters of a day
hToJ(c) == clampToDayStep(clampToHourStep(c), HOURS_PER_DAY.c)

\* quarters of a day to hundredths of an hour
jToH(j) == clampToHourStep((j * HOURS_PER_DAY.c) \div 4)

\* temps_passe_j of a row received with temps_passe_h alone:
\* clampToDayStep(hToJ(clampToHourStep(Number(r.temps_passe_h ?? 0))))
receivedDays(c) == clampToDayStep(hToJ(clampToHourStep(c)), 4)

\* rows.value.map(({ id, ...rest }) => rest)
withoutId(rows) ==
  [i \in 1..Len(rows) |->
     [day |-> rows[i].day, sujet |-> rows[i].sujet,
      temps_passe_j |-> rows[i].temps_passe_j]]

snapshotCurrent(v) ==
  [day |-> v.day, text |-> v.text, rows |-> withoutId(v.rows)]

isDirty(v) == snapshotCurrent(v) # v.lastSavedSnapshot

\* e?.response?.data?.error || e?.message || fallback
errorMessage(reply, fallback) ==
  IF reply.error # "" THEN reply.error
  ELSE IF reply.message # "" THEN reply.message
  ELSE fallback

loadMonth(v, reply) ==
  [v EXCEPT !.monthError =
     IF reply.status = 200 THEN ""
     ELSE errorMessage(reply, "Erreur chargement mois")]

\* uid(): an id no row of the view has
uid(rows) ==
  CHOOSE id \in 1..(Len(rows) + 1) : \A i \in 1..Len(rows) : rows[i].id # id

loadDayFromApi(v, reply) ==
  IF reply.status = 200
    THEN LET loaded ==
               [v EXCEPT !.msg = "",
                         !.rows = [i \in 1..Len(reply.rows) |->
                                     ClientRow(i, v.day, reply.rows[i].sujet,
                                               receivedDays(reply.rows[i].temps_passe_h))],
                         !.text = ""]
         IN  [loaded EXCEPT !.lastSavedSnapshot = snapshotCurrent(loaded)]
    ELSE [v EXCEPT !.msg = errorMessage(reply, "Erreur chargement jour")]

\* the catch of saveDay, which also marks the view as saved
saveDayCatch_MarksSaved(v, reply) ==
  [v EXCEPT !.msg = errorMessage(reply, "Erreur sauvegarde"),
            !.lastSavedSnapshot = snapshotCurrent(v)]

\* the catch of saveDay
saveDayCatch(v, reply) ==
  [v EXCEPT !.msg = errorMessage(reply, "Erreur sauvegarde")]

clientUnchanged ==
  UNCHANGED <<serverVars, normVars, capVars, pc, exportVars, monthVars, restVars>>

\* what saveDay leaves alone, the body of its request apart
saveUnchanged ==
  UNCHANGED <<serverVars, normVars, capVars, pc, exportVars, monthVars,
              funVars, nav>>

addRow ==
  /\ Len(view.rows) < MaxRows
  /\ view' = [view EXCEPT !.msg = "",
                          !.rows = Append(@, ClientRow(uid(@), view.day, "", 0))]
  /\ clientUnchanged

removeRow(index) ==
  /\ index \in 1..Len(view.rows)
  /\ view' = [view EXCEPT !.msg = "",
                          !.rows = SubSeq(@, 1, index - 1)
                                     \o SubSeq(@, index + 1, Len(@))]
  /\ clientUnchanged

\* v-model of a row's time and of the free text
EditRow(index, j) ==
  /\ index \in 1..Len(view.rows)
  /\ view.rows[index].temps_passe_j # j
  /\ view' = [view EXCEPT !.rows[index].temps_passe_j = j]
  /\ clientUnchanged

EditText(t) ==
  /\ view.text # t
  /\ view' = [view EXCEPT !.text = t]
  /\ clientUnchanged

\* changeDay, the user confirming when the view is dirty
changeDay(targetDay, reply, monthReply) ==
  /\ targetDay # view.day
  /\ view' = loadMonth(loadDayFromApi([view EXCEPT !.day = targetDay], reply),
                       monthReply)
  /\ clientUnchanged

\* the body saveDay posts to /api/activities/upsertDay
saveDayBody(v) ==
  [day |-> v.day,
   rows |-> [i \in 1..Len(v.rows) |->
               LET j == clampToDayStep(v.rows[i].temps_passe_j, 4)
               IN  [day |-> v.rows[i].day, sujet |-> v.rows[i].sujet,
                    temps_passe_j |-> j, temps_passe_h |-> jToH(j)]]]

\* saveDay up to the request
SaveDayStart ==
  /\ ~view.saving
  /\ Len(view.rows) > 0
  /\ view' = [view EXCEPT !.msg = "", !.saving = TRUE]
  /\ saveUnchanged

\* saveDay from the answer of the request
SaveDayEnd(reply, monthReply) ==
  /\ view.saving
  /\ LET answered ==
           IF reply.status = 200
             THEN loadMonth(
                    [view EXCEPT !.msg = "saved",
                                 !.lastSavedSnapshot = snapshotCurrent(view)],
                    monthReply)
             ELSE saveDayCatch(view, reply)
     IN  view' = [answered EXCEPT !.saving = FALSE]
  /\ saveUnchanged

ClientReply(status, error, message, rows) ==
  [status |-> status, error |-> error, message |-> message, rows |-> rows]

\* an exception with a message only
NetworkError == ClientReply(0, "", "Network Error", <<>>)

\* a rejection with the server's error, an exception with a message only,
\* an exception with neither
FailedReplies ==
  {ClientReply(400, "Total trop eleve", "Request failed with status code 400", <<>>),
   NetworkError,
   ClientReply(0, "", "", <<>>)}

SavedReply == ClientReply(200, "", "", <<>>)

\* the day's rows as the server returns them, temps_passe_h in hundredths:
\* none, or 3.5 h
DayReplies ==
  {ClientReply(200, "", "", rows) :
     rows \in {<<>>, <<[sujet |-> "", temps_passe_h |-> 350]>>}}

QuarterDays == {0, 2}

InitClient ==
  /\ InitStoreIdle
  /\ InitRestIdle
  /\ InitNormIdle
  /\ InitCapIdle
  /\ InitExportIdle
  /\ InitMonthIdle
  /\ pc = "input"
  /\ view = [NoView EXCEPT !.day = AccessDay]

\* the handlers of the view, the body of the request of saveDay not kept
NextClient ==
  \/ addRow
  \/ \E i \in 1..MaxRows : removeRow(i)
  \/ \E i \in 1..MaxRows, j \in QuarterDays : EditRow(i, j)
  \/ \E t \in {"", "reunion"} : EditText(t)
  \/ \E d \in Days, reply \in DayReplies \cup {NetworkError},
        monthReply \in {SavedReply, NetworkError} :
       changeDay(d, reply, monthReply)
  \/ SaveDayStart /\ UNCHANGED posted
  \/ \E reply \in {SavedReply} \cup FailedReplies,
        monthReply \in {SavedReply, NetworkError} :
       SaveDayEnd(reply, monthReply) /\ UNCHANGED posted

SpecClient == InitClient /\ [][NextClient]_vars

(***************************************************************************)
(* saveDay with the body of its request kept while the request is in       *)
(* flight, the table being edited meanwhile                                *)
(***************************************************************************)
InitSave == InitClient

NextSave ==
  \/ addRow
  \/ \E i \in 1..MaxRows : removeRow(i)
  \/ \E i \in 1..MaxRows, j \in QuarterDays : EditRow(i, j)
  \/ \E t \in {"", "reunion"} : EditText(t)
  \/ SaveDayStart /\ posted' = saveDayBody(view)
  \/ \E reply \in {SavedReply, NetworkError} :
       SaveDayEnd(reply, SavedReply) /\ posted' = <<>>

SpecSave == InitSave /\ [][NextSave]_vars

(***************************************************************************)
(* parseAi.  The rows have the same projet and type, which rowFingerprint  *)
(* leaves out.                                                             *)
(***************************************************************************)
rowFingerprint(r) == <<r.sujet, clampToDayStep(r.temps_passe_j, 4)>>

\* generated.filter: a row is kept when its fingerprint is new
RECURSIVE withoutSeen(_, _)
withoutSeen(generated, seen) ==
  IF generated = <<>> THEN <<>>
  ELSE IF rowFingerprint(Head(generated)) \in seen
         THEN withoutSeen(Tail(generated), seen)
         ELSE <<Head(generated)>>
                \o withoutSeen(Tail(generated),
                               seen \cup {rowFingerprint(Head(generated))})

\* uid() called n times: ids that no row of the view has
RECURSIVE uids(_, _)
uids(rows, n) ==
  IF n = 0 THEN <<>>
  ELSE <<uid(rows)>> \o uids(Append(rows, ClientRow(uid(rows), "", "", 0)), n - 1)

\* parseAi up to the request
ParseAiStart ==
  /\ ~view.loadingAi
  /\ view.text # ""
  /\ Len(view.rows) <= MaxRows
  /\ view' = [view EXCEPT !.msg = "", !.loadingAi = TRUE, !.existing = view.rows]
  /\ clientUnchanged

\* parseAi from the answer of the request
ParseAiEnd(reply) ==
  /\ view.loadingAi
  /\ LET existing == view.existing
         ids == uids(existing, Len(reply.rows))
         generated ==
           [i \in 1..Len(reply.rows) |->
              ClientRow(ids[i], view.day, reply.rows[i].sujet,
                        receivedDays(reply.rows[i].temps_passe_h))]
         toAdd ==
           withoutSeen(generated,
                       {rowFingerprint(existing[i]) : i \in 1..Len(existing)})
         answered ==
           IF reply.status = 200
             THEN [view EXCEPT !.rows = existing \o toAdd,
                               !.msg = IF toAdd = <<>> THEN "doublons" ELSE @]
             ELSE [view EXCEPT !.msg = errorMessage(reply, "Erreur IA")]
     IN  view' = [answered EXCEPT !.loadingAi = FALSE, !.existing = <<>>]
  /\ clientUnchanged

\* the rows of an answer of /api/ai/parse, temps_passe_h in hundredths
ParseReplies ==
  {ClientReply(200, "", "", rows) :
     rows \in {<<>>,
               <<[sujet |-> "", temps_passe_h |-> 350]>>,
               <<[sujet |-> "", temps_passe_h |-> 350],
                 [sujet |-> "", temps_passe_h |-> 700]>>}}

InitParse == InitClient

NextParse ==
  \/ addRow
  \/ \E i \in 1..MaxRows : removeRow(i)
  \/ \E i \in 1..MaxRows, j \in QuarterDays : EditRow(i, j)
  \/ \E t \in {"", "reunion"} : EditText(t)
  \/ ParseAiStart
  \/ \E reply \in ParseReplies \cup {NetworkError} : ParseAiEnd(reply)

SpecParse == InitParse /\ [][NextParse]_vars

(***************************************************************************)
(* The rows of /api/ai/parse shown by parseAi on an empty day and saved,   *)
(* and the stored rows of a day loaded and saved                           *)
(***************************************************************************)
\* rows of the completion service's reply, or of the store: sujet and hours
HourRows(hours) ==
  [i \in 1..Len(hours) |-> [sujet |-> i, temps_passe_h |-> hours[i]]]

\* the hours of the rows, summed as upsertDay sums them
bodyTotal(body) == Hours(sumHours(body.rows), 0)

\* res.json({ rows: capped })
aiParseReply(rows) ==
  ClientReply(200, "", "", capRowsToOneDay(rows, HOURS_PER_DAY.c))

\* hours of the rows of the completion service: 1 h, 3.5 h, 5 h
AiHours == {100, 350, 500}

InitAiSave ==
  /\ InitStoreIdle
  /\ InitNormIdle
  /\ InitCapIdle
  /\ InitExportIdle
  /\ InitMonthIdle
  /\ pc = "input"
  /\ nav = NoNav
  /\ posted = <<>>
  /\ funOut = <<>>
  /\ \E hours \in SeqsUpTo(AiHours, MaxRows + 1) : funIn = HourRows(hours)
  /\ view = [NoView EXCEPT !.day = AccessDay, !.text = "reunion"]

NextAiSave ==
  \/ view.rows = <<>> /\ ParseAiStart
  \/ ParseAiEnd(aiParseReply(funIn))
  \/ SaveDayStart /\ posted' = saveDayBody(view)

SpecAiSave == InitAiSave /\ [][NextAiSave]_vars

\* stored hours of a row: 0 h, 1 h, 1.75 h, 3.5 h, 7 h
StoredHours == {0, 100, 175, 350, 700}

\* the rows of one day of the store: each within 0..24 h, at most 7 h in all
StoredDays ==
  {rows \in {HourRows(hours) : hours \in SeqsUpTo(StoredHours, MaxRows + 1)} :
     ~overDailyLimit(Hours(sumHours(rows), 0))}

InitRoundTrip ==
  /\ InitStoreIdle
  /\ InitNormIdle
  /\ InitCapIdle
  /\ InitExportIdle
  /\ InitMonthIdle
  /\ pc = "input"
  /\ nav = NoNav
  /\ posted = <<>>
  /\ funOut = <<>>
  /\ funIn \in StoredDays
  /\ view = [NoView EXCEPT !.day = "2024-03-05"]

NextRoundTrip ==
  \/ \E monthReply \in {SavedReply, NetworkError} :
       changeDay(AccessDay, ClientReply(200, "", "", funIn), monthReply)
  \/ SaveDayStart /\ posted' = saveDayBody(view)

SpecRoundTrip == InitRoundTrip /\ [][NextRoundTrip]_vars

(***************************************************************************)
(* The browser: the routes and the guard of router.ts, the cached identity *)
(* of lib/me.ts, sign-in, logout and the expiry of the session.  nav.to is *)
(* the route a navigation is going to (settled: it has arrived), session   *)
(* the signed-in account, api what GET /api/me answers, cache the identity *)
(* under me_cache_v1, me the ref of the Activity view.                     *)
(***************************************************************************)
publicRoutes == {"/login", "/reset-password"}

profileRoute == "/complete-profile"

\* the redirect records of the routes
resolve(path) ==
  IF path = "/" THEN "/activity"
  ELSE IF path = "/pm" THEN "/pm-dashboard"
  ELSE IF path \in {"/login", "/reset-password", "/complete-profile",
                    "/activity", "/pm-dashboard"} THEN path
  ELSE "/activity"

\* the answers of GET /api/me: a profile with a name (role dev or pm), a
\* profile without a name, an error (401, or 400 when the profile is missing)
MeAnswers == {"dev", "pm", "unnamed", "error"}

\* router.beforeEach: the route returned, "true" for true
beforeEach(to, isAuthed, answer) ==
  IF ~isAuthed /\ to \notin publicRoutes THEN "/login"
  ELSE IF isAuthed /\ to = "/login" THEN "/activity"
  ELSE IF isAuthed /\ to \notin publicRoutes
    THEN IF to = profileRoute THEN "true"
         ELSE IF answer = "error" THEN "/login"
         ELSE IF answer = "unnamed" THEN profileRoute
         ELSE IF to \in {"/pm", "/pm-dashboard"} /\ answer # "pm"
           THEN "/activity"
         ELSE "true"
  ELSE "true"

\* fetchMe: the identity of the session, cached; it throws on an error
fetchMe(n) ==
  IF n.session = "none" \/ n.api = "error"
    THEN [n EXCEPT !.me = "none"]
    ELSE [n EXCEPT !.cache = n.session, !.me = n.session]

\* me.value = await ensureMe(), null when it throws
ensureMe(n) ==
  IF n.cache # "none" THEN [n EXCEPT !.me = n.cache] ELSE fetchMe(n)

navUnchanged ==
  UNCHANGED <<serverVars, normVars, capVars, pc, clientVars, exportVars,
              monthVars, funVars, posted>>

\* one run of the guard for the navigation under way; the Activity view is
\* mounted when the navigation arrives at /activity
GuardStep ==
  /\ ~nav.settled
  /\ LET r == beforeEach(nav.to, nav.session # "none", nav.api)
     IN  nav' = IF r # "true" THEN [nav EXCEPT !.to = resolve(r)]
                ELSE IF nav.to = "/activity"
                  THEN ensureMe([nav EXCEPT !.settled = TRUE])
                ELSE [nav EXCEPT !.settled = TRUE, !.me = "none"]
  /\ navUnchanged

\* router.push, or an address typed by the user
Push(path) ==
  /\ nav.settled
  /\ nav' = [nav EXCEPT !.to = resolve(path), !.settled = FALSE]
  /\ navUnchanged

\* Login.vue, submit: signInWithPassword, then router.push("/activity")
SignIn(account) ==
  /\ nav.settled
  /\ nav.to = "/login"
  /\ nav' = [nav EXCEPT !.session = account, !.to = "/activity",
                        !.settled = FALSE]
  /\ navUnchanged

\* Activity.vue, logout: signOut, clearMeCache, router.push("/login")
logout ==
  /\ nav.settled
  /\ nav.to = "/activity"
  /\ nav' = [nav EXCEPT !.session = "none", !.cache = "none",
                        !.to = "/login", !.settled = FALSE]
  /\ navUnchanged

\* the session expires or is revoked
Expire ==
  /\ nav.session # "none"
  /\ nav' = [nav EXCEPT !.session = "none"]
  /\ navUnchanged

Paths ==
  {"/", "/login", "/reset-password", "/complete-profile", "/activity", "/pm",
   "/pm-dashboard", "/nowhere"}

InitNav ==
  /\ InitStoreIdle
  /\ InitNormIdle
  /\ InitCapIdle
  /\ InitClientIdle
  /\ InitExportIdle
  /\ InitMonthIdle
  /\ pc = "input"
  /\ funIn = <<>>
  /\ funOut = <<>>
  /\ posted = <<>>
  /\ \E path \in Paths, session \in {"none", "ana"}, answer \in MeAnswers :
       nav = [NoNav EXCEPT !.to = resolve(path), !.settled = FALSE,
                           !.session = session, !.api = answer]

NextNav ==
  \/ GuardStep
  \/ \E path \in Paths : Push(path)
  \/ \E account \in {"ana", "bob"} : SignIn(account)
  \/ logout
  \/ Expire

SpecNav == InitNav /\ [][NextNav]_vars

\* the guard runs as long as a navigation is under way
SpecNavFair == SpecNav /\ WF_vars(GuardStep)

(***************************************************************************)
(* The cells of the CSV exports.  A cell is the text String(v ?? "") of a  *)
(* field; "LF" and "CR" are the line feed and the carriage return, "APOS"  *)
(* is the apostrophe U+0027.                                               *)
(***************************************************************************)
\* String.prototype.replaceAll for a one-character pattern
replaceAll(s, from, to) ==
  [i \in 1..Len(s) |-> IF s[i] = from THEN to ELSE s[i]]

\* .replaceAll(";", ",").replaceAll("\n", " ").replaceAll("\r", " ")
withoutSeparators(s) ==
  replaceAll(replaceAll(replaceAll(s, ";", ","), "LF", " "), "CR", " ")

\* sanitizeCsvCell of /api/activities/export and /api/pm/export-range
sanitizeCsvCell(v) ==
  LET s == withoutSeparators(v)
  IN  IF s # <<>> /\ s[1] \in {"=", "+", "-", "@"} THEN <<"APOS">> \o s ELSE s

CsvRoutes == {"activities/export", "pm/export-range", "pm/export"}

\* the function each route maps over the fields of a row: /api/pm/export
\* declares sanitizeCsvCell and maps the three replacements alone
csvCell(route, v) ==
  IF route = "pm/export" THEN withoutSeparators(v) ELSE sanitizeCsvCell(v)

ExportCell(route) ==
  /\ pc = "input"
  /\ cellOut' = csvCell(route, cellIn)
  /\ pc' = route
  /\ UNCHANGED <<serverVars, reqs, normVars, capVars, clientVars, cellIn,
                 monthVars, restVars>>

MaxCellLen == 3

CellChars == {"=", "+", "-", "@", ";", "LF", "CR", "a"}

InitExport ==
  /\ InitStoreIdle
  /\ InitRestIdle
  /\ InitNormIdle
  /\ InitCapIdle
  /\ InitClientIdle
  /\ InitMonthIdle
  /\ pc = "input"
  /\ cellIn \in SeqsUpTo(CellChars, MaxCellLen)
  /\ cellOut = <<>>

NextExport == \E route \in CsvRoutes : ExportCell(route)

SpecExport == InitExport /\ [][NextExport]_vars

(***************************************************************************)
(* The month view: GET /api/activities/month and the two builders of the   *)
(* Activity view.  A Date is the number of its day, counted from           *)
(* 1970-01-01; a day string is a sequence of ten characters; hours are     *)
(* hundredths of an hour.                                                  *)
(***************************************************************************)
\* new Date(year, monthIndex, date): months and days beyond their range
\* carry over, so that date 0 is the last day of the month before
makeDay(year, monthIndex, date) ==
  LET y == year + (monthIndex \div 12)
      m == (monthIndex % 12) + 1
      yy == IF m <= 2 THEN y - 1 ELSE y
      era == yy \div 400
      yoe == yy - era * 400
      doy == (153 * (IF m > 2 THEN m - 3 ELSE m + 9) + 2) \div 5
      doe == yoe * 365 + (yoe \div 4) - (yoe \div 100) + doy
  IN  era * 146097 + doe - 719468 + (date - 1)

\* getFullYear, getMonth + 1 and getDate of a Date
civil(z) ==
  LET s == z + 719468
      era == s \div 146097
      doe == s - era * 146097
      yoe == (doe - (doe \div 1460) + (doe \div 36524) - (doe \div 146096))
               \div 365
      doy == doe - (365 * yoe + (yoe \div 4) - (yoe \div 100))
      mp == (5 * doy + 2) \div 153
      m == IF mp < 10 THEN mp + 3 ELSE mp - 9
  IN  [year |-> yoe + era * 400 + (IF m <= 2 THEN 1 ELSE 0),
       month |-> m,
       date |-> doy - ((153 * mp + 2) \div 5) + 1]

\* Date.prototype.getDay: 0 is Sunday; 1970-01-01 was a Thursday
getDay(z) == (z + 4) % 7

\* new Date(year, month1to12 + 1, 0).getDate(): the month after
getDaysInMonth_MonthFromZero(year, month1to12) ==
  civil(makeDay(year, month1to12 + 1, 0)).date

\* new Date(year, month1to12, 0).getDate()
getDaysInMonth(year, month1to12) == civil(makeDay(year, month1to12, 0)).date

DecimalDigits == <<"0", "1", "2", "3", "4", "5", "6", "7", "8", "9">>

\* String(n).padStart(2, "0")
pad2(n) ==
  IF n < 10 THEN <<"0", DecimalDigits[n + 1]>>
  ELSE <<DecimalDigits[(n \div 10) + 1], DecimalDigits[(n % 10) + 1]>>

\* `${getFullYear()}-${pad2(getMonth() + 1)}-${pad2(getDate())}`, which is
\* also toISOString().slice(0, 10) of a UTC date
toYYYYMMDD(z) ==
  LET c == civil(z)
  IN  pad2(c.year \div 100) \o pad2(c.year % 100) \o <<"-">> \o pad2(c.month)
        \o <<"-">> \o pad2(c.date)

\* the weekend test with Sunday alone
isWeekendDate_SundayOnly(z) == getDay(z) = 0

isWeekendDate(z) == getDay(z) = 0 \/ getDay(z) = 6

\* Math.round(x * 10) / 10 and Number(x.toFixed(1)), which agree on sums of
\* quarter hours
roundToTenth(c) == roundDiv(c, 10) * 10

\* the days array of GET /api/activities/month
monthRouteDays(year, month, data) ==
  [d \in 1..getDaysInMonth(year, month) |->
     LET yyyyMMdd == toYYYYMMDD(makeDay(year, month - 1, d))
         rows == SelectSeq(data, LAMBDA a : a.day = yyyyMMdd)
     IN  [day |-> yyyyMMdd,
          totalHours |-> roundToTenth(sumHours(rows)),
          linesCount |-> Len(rows)]]

\* one MonthDayItem
monthDayItem(z, dayNumber, total, count, filled) ==
  [day |-> toYYYYMMDD(z),
   dayNumber |-> dayNumber,
   weekdayLabel |-> getDay(z),
   isWeekend |-> isWeekendDate(z),
   status |-> IF isWeekendDate(z) THEN "weekend"
              ELSE IF filled THEN "filled" ELSE "empty",
   totalHours |-> roundToTenth(total),
   linesCount |-> count]

buildMonthDaysFromActivities(year, month, acts) ==
  [dayNumber \in 1..getDaysInMonth(year, month) |->
     LET d == makeDay(year, month - 1, dayNumber)
         dayActs ==
           SelectSeq(acts, LAMBDA a : a.day # <<>> /\ a.day = toYYYYMMDD(d))
     IN  monthDayItem(d, dayNumber, sumHours(dayActs), Len(dayActs),
                      Len(dayActs) > 0)]

buildMonthDaysFromAggregatedDays(year, month, days) ==
  [dayNumber \in 1..getDaysInMonth(year, month) |->
     LET d == makeDay(year, month - 1, dayNumber)
         found == SelectSeq(days, LAMBDA a : a.day # <<>> /\ a.day = toYYYYMMDD(d))
         total == IF found = <<>> THEN 0 ELSE found[Len(found)].totalHours
         count == IF found = <<>> THEN 0 ELSE found[Len(found)].linesCount
     IN  monthDayItem(d, dayNumber, total, count, count > 0)]

monthUnchanged ==
  UNCHANGED <<serverVars, reqs, normVars, capVars, clientVars, exportVars,
              monthIn, restVars>>

\* the request handler answers with the days of the month
MonthRoute ==
  /\ pc = "input"
  /\ monthOut' = monthRouteDays(monthIn.year, monthIn.month, monthIn.entries)
  /\ pc' = "server"
  /\ monthUnchanged

\* loadMonth when the answer has days
LoadMonthFromDays ==
  /\ pc = "server"
  /\ monthOut' =
       buildMonthDaysFromAggregatedDays(monthIn.year, monthIn.month, monthOut)
  /\ pc' = "aggregated"
  /\ monthUnchanged

\* loadMonth when the answer has activities only
LoadMonthFromActivities ==
  /\ pc = "input"
  /\ monthOut' =
       buildMonthDaysFromActivities(monthIn.year, monthIn.month,
                                    monthIn.entries)
  /\ pc' = "activities"
  /\ monthUnchanged

MaxEntries == 2

\* a leap year by the 400 rule, a common year, a leap year, a century year
MonthYears == {2000, 2023, 2024, 2100}

\* entries of the first two days of the month (1.25 h and 3.5 h) and of
\* the first day of the month after it
MonthEntries(year, month) ==
  SeqsUpTo(
    {[day |-> toYYYYMMDD(makeDay(year, e[1] - 1, e[2])), temps_passe_h |-> e[3]] :
       e \in {<<month, 1, 125>>, <<month, 2, 350>>, <<month + 1, 1, 350>>}},
    MaxEntries)

InitMonth ==
  /\ InitStoreIdle
  /\ InitRestIdle
  /\ InitNormIdle
  /\ InitCapIdle
  /\ InitClientIdle
  /\ InitExportIdle
  /\ pc = "input"
  /\ \E year \in MonthYears, month \in 1..12 :
       \E entries \in MonthEntries(year, month) :
         monthIn = [year |-> year, month |-> month, entries |-> entries]
  /\ monthOut = <<>>

NextMonth == MonthRoute \/ LoadMonthFromDays \/ LoadMonthFromActivities

SpecMonth == InitMonth /\ [][NextMonth]_vars

(***************************************************************************)
(* GET /api/pm/completion: the users array computed from the two selects.  *)
(* Days are numbered; hours are hundredths of an hour.                     *)
(***************************************************************************)
\* one entry counted per row
distinctDays_EveryRow(rows) == Len(rows)

\* st.days.size, after st.days.add(a.day) for every row of the user
distinctDays(rows) == Cardinality({rows[k].day : k \in 1..Len(rows)})

\* .gte("day", q.from).lte("day", q.to)
selectRange(acts, from, to) ==
  SelectSeq(acts, LAMBDA a : a.day >= from /\ a.day <= to)

\* the users array: one item per row of profiles, in the order of the select
completionUsers(profs, acts) ==
  [i \in 1..Len(profs) |->
     LET mine == SelectSeq(acts, LAMBDA a : a.user_id = profs[i].id)
     IN  [userId |-> profs[i].id,
          role |-> profs[i].role,
          filledDays |-> distinctDays(mine),
          totalHours |-> roundToTenth(sumHours(mine))]]

Completion ==
  /\ pc = "input"
  /\ funOut' = completionUsers(funIn.profiles,
                               selectRange(funIn.acts, funIn.from, funIn.to))
  /\ pc' = "completion"
  /\ UNCHANGED <<serverVars, normVars, capVars, clientVars, exportVars,
                 monthVars, funIn, nav, posted>>

\* the profiles table: no row, one row, two rows in either order
CompletionProfiles ==
  {<<>>, <<[id |-> "ana", role |-> "pm"]>>,
   <<[id |-> "ana", role |-> "pm"], [id |-> "bob", role |-> "dev"]>>,
   <<[id |-> "bob", role |-> "dev"], [id |-> "ana", role |-> "pm"]>>}

\* entries of ana, of bob and of eve, who has no profile, on days 1 and 2
\* and on day 9, after the range; 1.75 h and 3.5 h
CompletionEntries ==
  [user_id : {"ana", "bob", "eve"}, day : {1, 2, 9}, temps_passe_h : {175, 350}]

InitCompletion ==
  /\ InitStoreIdle
  /\ InitNormIdle
  /\ InitCapIdle
  /\ InitClientIdle
  /\ InitExportIdle
  /\ InitMonthIdle
  /\ pc = "input"
  /\ nav = NoNav
  /\ posted = <<>>
  /\ \E profs \in CompletionProfiles,
        acts \in SeqsUpTo(CompletionEntries, MaxEntries) :
       funIn = [profiles |-> profs, acts |-> acts, from |-> 1, to |-> 2]
  /\ funOut = <<>>

NextCompletion == Completion

SpecCompletion == InitCompletion /\ [][NextCompletion]_vars

(***************************************************************************)
(* Profile completion, starting from empty tables, among the other         *)
(* operations of the API (called with a body without rows).                *)
(***************************************************************************)
InitProfile ==
  /\ activities = {}
  /\ nextId = 1
  /\ profiles = [u \in Users |-> "none"]
  /\ appMeta = [u \in Users |-> "none"]
  /\ resp = NoResponse
  /\ reqs = [s \in Slots |-> Idle]
  /\ InitPure

NextProfile ==
  \/ \E c \in Callers, ok \in BOOLEAN, w \in {"dev", "pm"} :
       ProfileComplete(c, ok, w)
  \/ \E c \in Callers : UpsertDay(c, AccessDay, <<>>)
  \/ \E c \in Callers : AppendDay(c, AccessDay, <<>>)
  \/ \E c \in Callers, u \in Users : UpsertDayForUser(c, u, AccessDay, <<>>)
  \/ \E c \in Callers : UpdateVsa(c, <<[id |-> 1, impute |-> "VSA1"]>>)
  \/ \E r \in PmReadRoutes, c \in Callers, ok \in BOOLEAN :
       PmRead(r, c, ok)

SpecProfile == InitProfile /\ [][NextProfile]_vars

(***************************************************************************)
(* Two write requests in flight: each step is one store call of a handler  *)
(* together with the code that runs up to the next store call.             *)
(***************************************************************************)
ConcUser == "bob"

\* 3.5 h and 7 h
ConcBodies ==
  SeqsUpTo({Row(Hours(350, 0), REUNION, ""), Row(Hours(700, 0), REUNION, "")},
           MaxRows)

inFlightRows ==
  LET n(s) == IF reqs[s] = Idle THEN 0 ELSE Len(reqs[s].rows)
  IN  n(1) + n(2)

concUnchanged ==
  UNCHANGED <<profiles, appMeta, normVars, capVars, pc, returned, clientVars,
              exportVars, monthVars, restVars>>

\* appendDay up to the select of the existing rows
StartAppendDay(s, caller, day, rows) ==
  /\ reqs[s] = Idle
  /\ nextId + inFlightRows + Len(rows) - 1 <= MaxId
  /\ IF ~authenticated(caller)
       THEN /\ Reply("appendDay", caller, 401, "auth")
            /\ UNCHANGED reqs
     ELSE IF ~appendDayBodyAccepted(day, rows)
       THEN /\ Reply("appendDay", caller, 400, "validate")
            /\ UNCHANGED reqs
     ELSE \/ /\ Reply("appendDay", caller, 400, "select")
             /\ UNCHANGED reqs
          \/ /\ reqs' =
                  [reqs EXCEPT ![s] =
                     [op |-> "appendDay", user |-> caller, day |-> day,
                      rows |-> parseRows(rows),
                      existing |->
                        totalHours(rowsById(dayRows(activities, caller, day)))]]
             /\ UNCHANGED resp
  /\ UNCHANGED <<activities, nextId>>
  /\ concUnchanged

\* appendDay from the check of the total to the insert
FinishAppendDay(s) ==
  /\ reqs[s] # Idle
  /\ reqs[s].op = "appendDay"
  /\ LET r == reqs[s] IN
       IF overDailyLimit(hoursAdd(r.existing, totalHours(r.rows)))
         THEN /\ Reply("appendDay", r.user, 400, "limit")
              /\ UNCHANGED <<activities, nextId>>
         ELSE \/ /\ Reply("appendDay", r.user, 400, "insert")
                 /\ UNCHANGED <<activities, nextId>>
              \/ /\ activities' =
                      activities
                        \cup memberPayload(r.user, r.day, r.rows, nextId)
                 /\ nextId' = nextId + Len(r.rows)
                 /\ Reply("appendDay", r.user, 200, "done")
  /\ reqs' = [reqs EXCEPT ![s] = Idle]
  /\ concUnchanged

\* upsertDay up to the delete
StartUpsertDay(s, caller, day, rows) ==
  /\ reqs[s] = Idle
  /\ nextId + inFlightRows + Len(rows) - 1 <= MaxId
  /\ IF ~authenticated(caller)
       THEN /\ Reply("upsertDay", caller, 401, "auth")
            /\ UNCHANGED <<activities, reqs>>
     ELSE IF ~upsertDayBodyAccepted(day, rows)
       THEN /\ Reply("upsertDay", caller, 400, "validate")
            /\ UNCHANGED <<activities, reqs>>
     ELSE \/ /\ Reply("upsertDay", caller, 400, "delete")
             /\ UNCHANGED <<activities, reqs>>
          \/ /\ activities' = deleteDay(activities, caller, day)
             /\ reqs' =
                  [reqs EXCEPT ![s] =
                     [op |-> "upsertDay", user |-> caller, day |-> day,
                      rows |-> parseRows(rows), existing |-> Hours(0, 0)]]
             /\ UNCHANGED resp
  /\ UNCHANGED nextId
  /\ concUnchanged

\* upsertDay: the insert
FinishUpsertDay(s) ==
  /\ reqs[s] # Idle
  /\ reqs[s].op = "upsertDay"
  /\ LET r == reqs[s] IN
       \/ /\ Reply("upsertDay", r.user, 400, "insert")
          /\ UNCHANGED <<activities, nextId>>
       \/ /\ activities' =
               activities \cup memberPayload(r.user, r.day, r.rows, nextId)
          /\ nextId' = nextId + Len(r.rows)
          /\ Reply("upsertDay", r.user, 200, "done")
  /\ reqs' = [reqs EXCEPT ![s] = Idle]
  /\ concUnchanged

NextConc ==
  \/ \E s \in Slots, rows \in ConcBodies :
       StartAppendDay(s, ConcUser, AccessDay, rows)
  \/ \E s \in Slots : FinishAppendDay(s)
  \/ \E s \in Slots, rows \in ConcBodies :
       StartUpsertDay(s, ConcUser, AccessDay, rows)
  \/ \E s \in Slots : FinishUpsertDay(s)

SpecConc == Init /\ [][NextConc]_vars

(***************************************************************************)
(* normalizeType applied to one input                                      *)
(***************************************************************************)
\* String.prototype.toUpperCase, character by character
toUpperCase(s) ==
  [i \in 1..Len(s) |->
     IF Includes(LowerLetters, s[i])
       THEN UpperLetters[IndexOf(LowerLetters, s[i])]
       ELSE s[i]]

withoutAccents(s) == removeAccents(normalizeNFD(s))

withAccents(s) ==
  [i \in 1..Len(s) |->
     IF Includes(BaseLetters, s[i])
       THEN Precomposed[IndexOf(BaseLetters, s[i])]
       ELSE s[i]]

withSeparators(s) == [i \in 1..Len(s) |-> IF s[i] = " " THEN "_" ELSE s[i]]

\* spellings of one word: case, accents, composition, padding, separators
Spellings(w) ==
  {w, toUpperCase(w), toLowerCase(w),
   withoutAccents(w), toUpperCase(withoutAccents(w)),
   toLowerCase(withoutAccents(w)), withAccents(toLowerCase(w)),
   normalizeNFD(w), <<" ">> \o w \o <<" ">>, <<ZeroWidth>> \o w,
   withSeparators(w)}

BaseWords ==
  {ActivityType[i] : i \in 1..Len(ActivityType)}
    \cup {map[i][1] : i \in 1..Len(map)}
    \cup ObjectPrototypeKeys
    \cup {<<>>, FreeText}

NormInputs == UNION {Spellings(w) : w \in BaseWords}

InitNorm ==
  /\ InitStoreIdle
  /\ InitRestIdle
  /\ normIn \in NormInputs
  /\ normOut = <<>>
  /\ InitCapIdle
  /\ InitClientIdle
  /\ InitExportIdle
  /\ InitMonthIdle
  /\ pc = "input"

NormalizeStep ==
  /\ pc = "input"
  /\ normOut' = normalizeType(normIn)
  /\ pc' = "normalized"
  /\ UNCHANGED <<serverVars, normIn, capVars, clientVars, exportVars, monthVars, restVars>>

NextNorm == NormalizeStep

SpecNorm == InitNorm /\ [][NextNorm]_vars

(***************************************************************************)
(* capRowsToOneDay applied to one list of rows, then to its own result     *)
(***************************************************************************)
\* input hours, in hundredths: -1 h, 0 h, 1 h, 3.5 h
CapHourInputs == {-100, 0, 100, 350}

\* maxHours, in hundredths: 0.03 h and HOURS_PER_DAY
CapCeilings == {3, HOURS_PER_DAY.c}

CapInputs ==
  UNION {{[i \in 1..k |-> [sujet |-> i, temps_passe_h |-> h[i]]] :
            h \in [1..k -> CapHourInputs]} : k \in 0..MaxCapRows}

InitCap ==
  /\ InitStoreIdle
  /\ InitRestIdle
  /\ InitNormIdle
  /\ InitClientIdle
  /\ InitExportIdle
  /\ InitMonthIdle
  /\ capIn \in CapInputs
  /\ capMax \in CapCeilings
  /\ capOut = <<>>
  /\ capTwice = <<>>
  /\ pc = "input"

CapOnce ==
  /\ pc = "input"
  /\ capOut' = capRowsToOneDay(capIn, capMax)
  /\ pc' = "capped"
  /\ UNCHANGED <<serverVars, normVars, capIn, capMax, capTwice, clientVars,
                 exportVars, monthVars, restVars>>

CapAgain ==
  /\ pc = "capped"
  /\ capTwice' = capRowsToOneDay(capOut, capMax)
  /\ pc' = "capped twice"
  /\ UNCHANGED <<serverVars, normVars, capIn, capMax, capOut, clientVars,
                 exportVars, monthVars, restVars>>

NextCap == CapOnce \/ CapAgain

SpecCap == InitCap /\ [][NextCap]_vars

(***************************************************************************)
(* Properties                                                              *)
(***************************************************************************)
dayTotal(u, d) == totalHours(rowsById(dayRows(activities, u, d)))

allIdle == \A s \in Slots : reqs[s] = Idle

\* the hours and type of stored or submitted rows, without ids and codes
rowContents(rows) ==
  [i \in 1..Len(rows) |->
     [temps_passe_h |-> rows[i].temps_passe_h, type |-> rows[i].type]]

clampedHours(rows) == [i \in 1..Len(rows) |-> Max(0, rows[i].temps_passe_h)]

RECURSIVE sumOf(_)
sumOf(ns) == IF ns = <<>> THEN 0 ELSE Head(ns) + sumOf(Tail(ns))

\* two spellings that differ only by letter case or by diacritics
sameLetters(a, b) ==
  toLowerCase(withoutAccents(normalizeNFC(a)))
    = toLowerCase(withoutAccents(normalizeNFC(b)))

\* the accounts whose address is at keyrus.com and on PM_ALLOWED_EMAILS
AllowedManagers == {"ana"}

\* C4: for a non-empty list of rows with non-negative hours, the hours
\* returned by capRowsToOneDay sum to at most maxHours.
C4_SumWithinCeiling ==
  (/\ pc # "input"
   /\ capIn # <<>>
   /\ \A i \in 1..Len(capIn) : capIn[i].temps_passe_h >= 0)
    => sumHours(capOut) <= capMax

\* C5: capRowsToOneDay applied to its own result, with the same ceiling,
\* returns that result unchanged.
C5_Idempotent == pc = "capped twice" => capTwice = capOut

\* C6: when the clamped hours sum to at most the ceiling, capRowsToOneDay
\* returns the same rows in the same order, each with max(0, hours) and its
\* other fields unchanged.
C6_NoScalingBelowCeiling ==
  (pc # "input" /\ sumOf(clampedHours(capIn)) <= capMax)
    => /\ Len(capOut) = Len(capIn)
       /\ \A i \in 1..Len(capIn) :
            /\ capOut[i].sujet = capIn[i].sujet
            /\ capOut[i].temps_passe_h = Max(0, capIn[i].temps_passe_h)

C6_Witness ==
  /\ pc = "capped"
  /\ sumOf(clampedHours(capIn)) <= capMax
  /\ \E i, j \in 1..Len(capIn) :
       capIn[i].temps_passe_h < 0 /\ capIn[j].temps_passe_h > 0

\* C7: normalizeType returns one of the 12 members of ActivityType, for
\* every input string.
C7_AlwaysCanonical == pc = "normalized" => Includes(ActivityType, normOut)

\* C8: two inputs that differ only by letter case or by diacritics are
\* normalized to the same member of ActivityType.
C8_SameCanonicalMember ==
  pc = "normalized"
    => \A w \in NormInputs :
         sameLetters(w, normIn)
           => normalizeType(w) = normOut /\ Includes(ActivityType, normOut)

\* C1 as stated: after write requests run one after another, the hours
\* stored for a (user, day) sum to at most 7.
C1_AtMostSeven ==
  \A u \in Users, d \in Days : ~hoursGt(dayTotal(u, d), HOURS_PER_DAY)

\* C1: after write requests run one after another, the hours stored for a
\* (user, day) sum to at most 7 + 1e-9, the bound of the write-time checks.
C1_AtMostSevenWithinTolerance ==
  \A u \in Users, d \in Days :
    ~hoursGt(dayTotal(u, d), hoursAdd(HOURS_PER_DAY, Tolerance))

C1_Witness ==
  \E u \in Users, d \in Days :
    /\ Cardinality(dayRows(activities, u, d)) = 2
    /\ dayTotal(u, d) = HOURS_PER_DAY
    /\ resp = [op |-> "appendDay", user |-> u, status |-> 400,
               stage |-> "limit"]

\* C2: when two write requests for the same (user, day) have their store
\* calls interleaved, the day holds at most 7 hours once both have ended.
C2_AtMostSevenWhenInterleaved ==
  allIdle => \A d \in Days : ~hoursGt(dayTotal(ConcUser, d), HOURS_PER_DAY)

\* C3: when upsertDay ends, the rows of (user, day) are the submitted rows
\* if it succeeded and the rows stored before the request if it failed.
C3_UpsertDayAtomic ==
  [][\A c \in Writers, d \in Days, rows \in MemberBodies :
       UpsertDay(c, d, rows)
         => IF resp'.status = 200
              THEN rowContents(rowsById(dayRows(activities', c, d)))
                     = rowContents(parseRows(rows))
              ELSE dayRows(activities', c, d) = dayRows(activities, c, d)]_vars

\* the operations under /api/pm
PmOperations == PmReadRoutes \cup {"upsertDayForUser", "update-vsa"}

\* the rows of the accounts other than u
rowsOfOthers(acts, u) == {a \in acts : a.user_id # u}

\* C9 as stated: an /api/pm operation called by an authenticated account
\* whose role is not "pm" answers 403 at the role check and leaves the
\* activities alone.
C9_NonManagerForbidden ==
  [][(/\ resp'.op \in PmOperations
      /\ authenticated(resp'.user)
      /\ profiles[resp'.user] # "pm")
       => /\ resp'.status = 403
          /\ resp'.stage = "role"
          /\ activities' = activities]_vars

\* C9: an /api/pm operation called by an authenticated account whose role is
\* not "pm" ends at the role check, before validation and before any access
\* to the activities: with 403 when the role was read, with 400 when the
\* role lookup failed (always so for an account without a profile); and no
\* request of such an account changes the rows of another account.
C9_NonManagerStoppedAtRoleCheck ==
  [][(authenticated(resp'.user) /\ profiles[resp'.user] # "pm")
       => /\ resp'.op \in PmOperations
            => /\ resp'.stage = "role"
               /\ resp'.status \in {400, 403}
               /\ resp'.status = 403 => profiles[resp'.user] = "dev"
               /\ activities' = activities
          /\ rowsOfOthers(activities', resp'.user)
               = rowsOfOthers(activities, resp'.user)]_vars

C9_Witness ==
  /\ resp = [op |-> "upsertDayForUser", user |-> "bob", status |-> 403,
             stage |-> "role"]
  /\ rowsOfOthers(activities, "bob") # {}

\* C10: a stored role is "pm" only for an account whose address is on the
\* allow-list and at keyrus.com, and a role changes only in a
\* profile-completion call of its own account.
C10_ManagerOnlyIfAllowed ==
  /\ [](\A u \in Users : profiles[u] = "pm" => u \in AllowedManagers)
  /\ [][\A u \in Users :
          profiles'[u] # profiles[u]
            => resp'.op = "profile/complete" /\ resp'.user = u]_vars

C10_Witness ==
  /\ profiles["ana"] = "pm"
  /\ profiles["bob"] = "dev"
  /\ resp = [op |-> "profile/complete", user |-> "bob", status |-> 403,
             stage |-> "allow-list"]

C12_RejectedBeforeAnyWrite ==
  [][\A c \in {resp'.user} \cap Writers, d \in ValidateDays,
        rows \in ValidateBodies :
       LET noDay == d = ""
           rowOutOfRange ==
             \E i \in 1..Len(rows) :
               rows[i].temps_passe_h.c < 0 \/ rows[i].temps_passe_h.c > 2400
           added == totalHours(rows).c
           stored == dayTotal(c, d).c
           upsert == resp'.op = "upsertDay" /\ UpsertDay(c, d, rows)
           append == resp'.op = "appendDay" /\ AppendDay(c, d, rows)
           forUser ==
             /\ resp'.op = "upsertDayForUser"
             /\ profiles[c] = "pm"
             /\ UpsertDayForUser(c, "bob", d, rows)
       IN  /\ (noDay \/ rowOutOfRange \/ added > 700)
                /\ (upsert \/ append \/ forUser)
                => resp'.status = 400 /\ activities' = activities
           /\ stored + added > 700 /\ append
                => resp'.status = 400 /\ activities' = activities]_vars

C12_Witness ==
  /\ resp = [op |-> "appendDay", user |-> "bob", status |-> 400, stage |-> "limit"]
  /\ \E a \in activities : a.user_id = "bob" /\ a.temps_passe_h = Hours(400, 0)

\* C13: in /api/ai/parse an upstream failure (service not configured,
\* service unreachable or throwing, reply that is not JSON) is never answered
\* with the 400 that validation failures get.
C13_UpstreamFailuresDistinct ==
  resp.op = "ai/parse"
    /\ resp.stage \in {"MISTRAL_NOT_CONFIGURED", "upstream", "reply"}
    => resp.status # 400

\* C14: when the request of saveDay is rejected or errors, the view keeps its
\* rows, its day and its free text, shows an error message, clears the
\* saving flag and leaves lastSavedSnapshot alone, so that a view with
\* unsaved changes still reports them.
C14_FailedSaveKeepsEdits ==
  [][\A reply \in FailedReplies :
       SaveDayEnd(reply, SavedReply)
         => /\ view'.rows = view.rows
            /\ view'.day = view.day
            /\ view'.text = view.text
            /\ view'.msg \in {"Total trop eleve", "Network Error", "Erreur sauvegarde"}
            /\ ~view'.saving
            /\ view'.lastSavedSnapshot = view.lastSavedSnapshot
            /\ (isDirty(view) => isDirty(view'))]_vars

C14_Witness ==
  /\ view.msg = "Total trop eleve"
  /\ ~view.saving
  /\ Len(view.rows) = 2
  /\ view.text = "reunion"
  /\ view.lastSavedSnapshot = [day |-> "2024-03-05", text |-> "", rows |-> <<>>]

\* C15: in each of the three CSV exports a cell whose text starts with
\* '=', '+', '-' or '@' is emitted behind a single quote, and no emitted cell
\* holds ';' or a line break.
C15_CsvCellsSanitized ==
  pc \in CsvRoutes
    => /\ cellIn # <<>> /\ cellIn[1] \in {"=", "+", "-", "@"}
            => Len(cellOut) = Len(cellIn) + 1 /\ cellOut[1] = "APOS"
       /\ \A i \in 1..Len(cellOut) : cellOut[i] \notin {";", "LF", "CR"}

\* C16: a successful upsertDay of the owning user keeps every billing code
\* stored for the day it saves.
C16_SaveKeepsBillingCodes ==
  [][resp'.op = "upsertDay" /\ resp'.status = 200
       => \A a \in activities :
            a.user_id = resp'.user /\ a.impute # "" /\ a \notin activities'
              => \E b \in activities' :
                   b.user_id = a.user_id /\ b.day = a.day /\ b.impute = a.impute]_vars

\* C17: update-vsa creates and deletes no row, leaves owner, day, hours and
\* type of every row as they were, and leaves the billing code of every row
\* whose id is not listed as it was, also when it fails half way.
C17_OnlyListedBillingCodes ==
  [][\A c \in {resp'.user} \cap Writers, updates \in VsaBodies :
       resp'.op = "update-vsa" /\ UpdateVsa(c, updates)
         => LET listed == {updates[i].id : i \in 1..Len(updates)}
            IN  /\ Cardinality(activities') = Cardinality(activities)
                /\ \A a \in activities :
                     \E b \in activities' :
                       /\ b.id = a.id
                       /\ b.user_id = a.user_id
                       /\ b.day = a.day
                       /\ b.temps_passe_h = a.temps_passe_h
                       /\ b.type = a.type
                       /\ a.id \notin listed => b.impute = a.impute]_vars

C17_Witness ==
  /\ resp = [op |-> "update-vsa", user |-> "ana", status |-> 200, stage |-> "done"]
  /\ \E a \in activities, b \in activities :
       /\ a.id = 1 /\ a.impute = ""
       /\ b.id = 2 /\ b.impute = "VSA1" /\ b.user_id = "bob"

\* C18: every stored row and every row returned by /api/ai/parse has a type
\* that is a member of ActivityType and hours from 0 to 24; a free-text type
\* is stored and returned as a member, never as typed.
C18_RowsCanonical ==
  /\ \A a \in activities :
       /\ \E i \in 1..Len(ActivityType) : a.type = ActivityType[i]
       /\ a.type # FreeText
       /\ a.temps_passe_h.c \in 0..2400
       /\ a.temps_passe_h.c = 0 => a.temps_passe_h.n >= 0
       /\ a.temps_passe_h.c = 2400 => a.temps_passe_h.n <= 0
  /\ \A k \in 1..Len(returned) :
       /\ \E i \in 1..Len(ActivityType) : returned[k].type = ActivityType[i]
       /\ returned[k].type # FreeText
       /\ returned[k].temps_passe_h \in 0..2400

C18_Witness ==
  /\ \E a \in activities : a.type = T_Autre /\ a.temps_passe_h = Hours(500, 0)
  /\ Len(returned) = 2
  /\ returned[1].type = T_Autre
  /\ returned[2].type = T_Reunion

\* C19: the month view of (year, month) has one cell per calendar day of the
\* month, 29 in February of a leap year, the k-th cell being day k of that
\* month; with no entries no cell is filled.
C19_OneCellPerCalendarDay ==
  pc \in {"server", "aggregated", "activities"}
    => LET y == monthIn.year
           m == monthIn.month
           leap == y % 4 = 0 /\ (y % 100 # 0 \/ y % 400 = 0)
           length == IF m = 2 THEN (IF leap THEN 29 ELSE 28)
                     ELSE IF m \in {4, 6, 9, 11} THEN 30 ELSE 31
           value(c) == CHOOSE n \in 0..9 : DecimalDigits[n + 1] = c
           number(s) == IF Len(s) = 2 THEN 10 * value(s[1]) + value(s[2])
                        ELSE 1000 * value(s[1]) + 100 * value(s[2])
                               + 10 * value(s[3]) + value(s[4])
       IN  /\ Len(monthOut) = length
           /\ \A k \in 1..Len(monthOut) :
                LET day == monthOut[k].day
                IN  /\ Len(day) = 10 /\ day[5] = "-" /\ day[8] = "-"
                    /\ number(SubSeq(day, 1, 4)) = y
                    /\ number(SubSeq(day, 6, 7)) = m
                    /\ number(SubSeq(day, 9, 10)) = k
                    /\ pc # "server" /\ monthIn.entries = <<>>
                         => monthOut[k].status # "filled"

C19_Witness ==
  /\ pc = "aggregated"
  /\ monthIn.year = 2024 /\ monthIn.month = 2
  /\ Len(monthOut) = 29
  /\ Len(monthIn.entries) = 2
  /\ monthOut[1].status = "filled"

\* C20: in every cell of the month view linesCount is the number of entries
\* dated that day and totalHours is their sum of hours to one decimal; the
\* status is weekend on a Saturday or Sunday, whatever the entries, otherwise
\* filled when linesCount > 0 and empty when not; entries of other months
\* count in no cell.
C20_CellsMatchReference ==
  pc \in {"server", "aggregated", "activities"}
    => LET value(c) == CHOOSE n \in 0..9 : DecimalDigits[n + 1] = c
           two(s, i) == 10 * value(s[i]) + value(s[i + 1])
           onDay(a, k) ==
             /\ 100 * two(a.day, 1) + two(a.day, 3) = monthIn.year
             /\ two(a.day, 6) = monthIn.month
             /\ two(a.day, 9) = k
           \* Zeller's congruence: 0 is Saturday, 1 is Sunday
           zeller(k) ==
             LET m == IF monthIn.month <= 2 THEN monthIn.month + 12
                      ELSE monthIn.month
                 y == IF monthIn.month <= 2 THEN monthIn.year - 1
                      ELSE monthIn.year
             IN  (k + ((13 * (m + 1)) \div 5) + (y % 100) + ((y % 100) \div 4)
                    + ((y \div 100) \div 4) + 5 * (y \div 100)) % 7
       IN  \A k \in 1..Len(monthOut) :
             LET dated == {i \in 1..Len(monthIn.entries) :
                             onDay(monthIn.entries[i], k)}
                 hours == sumHours(SelectSeq(monthIn.entries,
                                             LAMBDA a : onDay(a, k)))
                 cell == monthOut[k]
             IN  /\ cell.linesCount = Cardinality(dated)
                 /\ cell.totalHours % 10 = 0
                 /\ 2 * cell.totalHours <= 2 * hours + 10
                 /\ 2 * cell.totalHours >= 2 * hours - 10
                 /\ pc # "server"
                      => cell.status =
                           IF zeller(k) \in {0, 1} THEN "weekend"
                           ELSE IF cell.linesCount > 0 THEN "filled"
                           ELSE "empty"

C20_Witness ==
  /\ pc = "activities"
  /\ monthIn.year = 2024 /\ monthIn.month = 6
  /\ monthOut[1].status = "weekend"
  /\ monthOut[1].linesCount = 1
  /\ monthOut[1].totalHours = 130
  /\ monthOut[3].status = "empty"
  /\ Len(monthIn.entries) = 2
  /\ monthIn.entries[2].day = <<"2", "0", "2", "4", "-", "0", "7", "-", "0", "1">>

\* C21: the completion result has one item per profile, profiles without
\* entries included; filledDays is the number of distinct days among the
\* user's entries in the range and totalHours is the sum of their hours;
\* entries of an owner without profile count nowhere.
C21_CompletionExact ==
  pc = "completion"
    => /\ Len(funOut) = Len(funIn.profiles)
       /\ \A i \in 1..Len(funIn.profiles) :
            LET mine == SelectSeq(funIn.acts,
                          LAMBDA a : /\ a.user_id = funIn.profiles[i].id
                                     /\ a.day \in funIn.from..funIn.to)
            IN  /\ funOut[i].userId = funIn.profiles[i].id
                /\ funOut[i].filledDays =
                     Cardinality({mine[k].day : k \in 1..Len(mine)})
                /\ funOut[i].totalHours = sumHours(mine)

\* C21 with the total as the handler returns it: rounded to one decimal
C21_CompletionRounded ==
  pc = "completion"
    => /\ Len(funOut) = Len(funIn.profiles)
       /\ \A i \in 1..Len(funIn.profiles) :
            LET mine == SelectSeq(funIn.acts,
                          LAMBDA a : /\ a.user_id = funIn.profiles[i].id
                                     /\ a.day \in funIn.from..funIn.to)
            IN  /\ funOut[i].userId = funIn.profiles[i].id
                /\ funOut[i].filledDays =
                     Cardinality({mine[k].day : k \in 1..Len(mine)})
                /\ funOut[i].totalHours % 10 = 0
                /\ 2 * funOut[i].totalHours <= 2 * sumHours(mine) + 10
                /\ 2 * funOut[i].totalHours >= 2 * sumHours(mine) - 10

C21_Witness ==
  /\ pc = "completion"
  /\ Len(funOut) = 2
  /\ funOut[1] = [userId |-> "bob", role |-> "dev", filledDays |-> 0,
                  totalHours |-> 0]
  /\ funOut[2].filledDays = 1
  /\ funOut[2].totalHours = 530
  /\ Len(funIn.acts) = 2

\* the clamped hours of the rows times maxHours / total, in hundredths
expectedScaled(rows, maxHours) ==
  LET hs == clampedHours(rows)
  IN  [i \in 1..Len(hs) |-> roundDiv(hs[i] * maxHours, sumOf(hs))]

\* the position of the first of the largest numbers of a non-empty list
firstLargest(ns) ==
  CHOOSE i \in 1..Len(ns) :
    /\ \A j \in 1..Len(ns) : ns[j] <= ns[i]
    /\ \A j \in 1..(i - 1) : ns[j] # ns[i]

\* capRowsToOneDay has scaled the rows of capIn
capScaled == pc # "input" /\ sumOf(clampedHours(capIn)) > capMax

\* C22 as claimed: when capRowsToOneDay scales, every output row other than
\* the first row with the largest scaled hours has its clamped input hours
\* times ceiling/total, rounded to 2 decimals.
C22_SingleRowAltered ==
  capScaled =>
    LET s == expectedScaled(capIn, capMax)
    IN  /\ Len(capOut) = Len(capIn)
        /\ \A i \in 1..Len(capIn) :
             i # firstLargest(s) => capOut[i].temps_passe_h = s[i]

\* C22: when capRowsToOneDay scales, the residual correction is applied to
\* the first row with the largest scaled hours; the safety-net correction
\* runs only when that row was clamped at 0 with the sum still above the
\* ceiling, and is applied to the first row with the largest hours after
\* the residual correction, which is another row; every other output row
\* has its clamped input hours times ceiling/total, rounded to 2 decimals.
C22_CorrectionsOnLargestRows ==
  capScaled =>
    LET s == expectedScaled(capIn, capMax)
        first == firstLargest(s)
        delta == capMax - sumOf(s)
        afterResidual == [s EXCEPT ![first] = Max(0, @ + delta)]
        over == sumOf(afterResidual) - capMax
        second == firstLargest(afterResidual)
    IN  /\ Len(capOut) = Len(capIn)
        /\ over > 0 => (s[first] + delta < 0 /\ second # first)
        /\ \A i \in 1..Len(capIn) :
             capOut[i].temps_passe_h =
               IF over > 0 /\ i = second THEN Max(0, afterResidual[i] - over)
               ELSE afterResidual[i]

\* five rows of 1 h and a ceiling of 0.03 h: the residual correction clamps
\* the first row at 0 and the safety net takes the rest from the second
C22_Witness ==
  /\ pc = "capped"
  /\ capMax = 3
  /\ Len(capIn) = 5
  /\ \A i \in 1..5 : capIn[i].temps_passe_h = 100
  /\ capOut[1].temps_passe_h = 0
  /\ capOut[2].temps_passe_h = 0
  /\ \A i \in 3..5 : capOut[i].temps_passe_h = 1

\* C23: in the Activity view every row of the table belongs to the selected
\* day, so that the body saveDay posts holds only rows of the day it is
\* posted for, whatever the answers to the loads of changeDay were.
C23_RowsOfSelectedDay ==
  /\ \A i \in 1..Len(view.rows) : view.rows[i].day = view.day
  /\ \A i \in 1..Len(saveDayBody(view).rows) :
       saveDayBody(view).rows[i].day = saveDayBody(view).day

\* C24: when a saveDay request is answered with success while the rows of
\* the table differ from the rows that were posted, the view is dirty after
\* the save has completed.
C24_EditInFlightStaysDirty ==
  [][(/\ posted # <<>>
      /\ saveDayBody(view).rows # posted.rows
      /\ SaveDayEnd(SavedReply, SavedReply))
       => isDirty(view')]_vars

\* C25: when parseAi completes, with success or failure, the rows of the
\* table as they were just before are the first rows of the table, with
\* the same values and in the same order.
C25_ParseAiOnlyAppends ==
  [][\A reply \in ParseReplies \cup {NetworkError} :
       ParseAiEnd(reply)
         => /\ Len(view'.rows) >= Len(view.rows)
            /\ SubSeq(view'.rows, 1, Len(view.rows)) = view.rows]_vars

\* C26: the body saveDay posts for the rows that parseAi has put into the
\* table of an empty day, as /api/ai/parse returned them, has a total of
\* hours that upsertDay accepts.
C26_AiRowsSaveAccepted ==
  posted # <<>> => ~overDailyLimit(bodyTotal(posted))

\* C27: the body saveDay posts for a day that was loaded and not edited
\* holds, row by row, the hours that are stored for the day.
C27_LoadSaveRoundTrip ==
  posted # <<>> =>
    /\ Len(posted.rows) = Len(funIn)
    /\ \A i \in 1..Len(funIn) :
         posted.rows[i].temps_passe_h = funIn[i].temps_passe_h

\* C28: every navigation settles on a route: whatever the session and the
\* answer of /api/me, the guard stops redirecting.
C28_NavigationSettles == []<>nav.settled

\* C29: the identity ensureMe gives to the Activity view when it is mounted
\* is the identity of the account that is signed in.
C29_IdentityOfSession ==
  [][(GuardStep /\ nav'.settled /\ nav'.to = "/activity")
       => nav'.me \in {"none", nav'.session}]_vars

\* C30: for every account the role of its profiles row and the role in its
\* app_metadata agree after every call of /api/profile/complete (an account
\* without a role in app_metadata counts as "dev", as the server's default).
C30_RolesAgree ==
  \A u \in Users :
    \/ profiles[u] = appMeta[u]
    \/ appMeta[u] = "none" /\ profiles[u] = "dev"

====
